---- MODULE Spec2Model ----
(***************************************************************************)
(* claude-spend: usage-event attribution engine.                           *)
(*                                                                         *)
(* Conventions of this model                                               *)
(*  - A JavaScript string on which the code performs string operations     *)
(*    (startsWith, includes, trim, join, toLowerCase) is a sequence of     *)
(*    one-character strings; strings that are only compared for equality  *)
(*    (type, role, block type, billing context) are TLA+ strings.          *)
(*  - An optional value (undefined / null / absent field) is a sequence of *)
(*    length 0 (None) or 1 (Some(v)).                                      *)
(*  - Dollar amounts are exact integers in units of 1e-8 USD               *)
(*    (tokens x rate-in-cents-per-MTok); IEEE rounding is not modelled.    *)
(***************************************************************************)
EXTENDS Integers, Sequences, FiniteSets, TLC

VARIABLES
    \* extractSessionData (one file, one loop iteration per step)
    entries,              \* the entries of the file consumed so far
    queries,              \* const queries: Query[]
    pendingUserMessage,   \* let pendingUserMessage
    cumulativeCost,       \* let cumulativeCost
    extractThrew,         \* the loop body raised a TypeError
    billingContext,       \* the run-wide billing context ("unset" before detection)
    \* detectBillingContext and the --billing flag of the CLI
    envBilling,           \* process.env.CLAUDE_SPEND_BILLING
    envApiKey,            \* process.env.ANTHROPIC_API_KEY
    credentials,          \* ~/.claude/.credentials.json
    cliPc,                \* "start", "parsed", "exited", "detected"
    \* parseAllSessions (one file of the projects directory per step)
    pipePc,               \* "idle", "history", "files", "done", "threw"
    dirIdx,               \* the project directory the outer loop is in
    filesRead,            \* the number of session files the loops have visited
    sessionFirstPrompt,   \* const sessionFirstPrompt
    sessions,             \* const sessions: Session[]
    dailyMap,             \* const dailyMap
    modelMap,             \* const modelMap
    allPrompts,           \* const allPrompts
    dashboard,            \* the DashboardData the call returned, if it has
    \* createServer (one handler segment between two awaits per step)
    cachedData,           \* let cachedData: DashboardData | null
    cachedRun,            \* history: the tick at which the run that produced it began
    requests,             \* the requests received, each with its handler's position
    clock,                \* history: the number of handler segments executed
    \* calculateCost (one call per step)
    priceModel,           \* model: string
    priceUsage,           \* usage: TokenUsage
    priceResult,          \* the CostBreakdown returned under each billing context
    \* generateInsights (one call per step)
    insightSessions,      \* the sessions of the run, by their name in the pool
    insightAdded,         \* the number of sessions added to the initial population
    insights,             \* the Insight[] the call returned, if it has
    insightArgs           \* sessions, allPrompts and grandTotals after the call

reconVars == <<entries, queries, pendingUserMessage, cumulativeCost, extractThrew>>
envVars == <<envBilling, envApiKey, credentials>>
pipeVars == <<pipePc, dirIdx, filesRead, sessionFirstPrompt, sessions, dailyMap,
              modelMap, allPrompts, dashboard>>
srvVars == <<cachedData, cachedRun, requests, clock>>
priceVars == <<priceModel, priceUsage, priceResult>>
insightVars == <<insightSessions, insightAdded, insights, insightArgs>>
vars == <<reconVars, billingContext, envVars, cliPc, pipeVars, srvVars, priceVars,
          insightVars>>

---------------------------------------------------------------------------
(* Optional values and JavaScript strings                                  *)

None == <<>>
Some(v) == <<v>>

\* x || 0 on an optional number
OrZero(o) == IF o = None THEN 0 ELSE o[1]

\* String.prototype.startsWith
StartsWith(s, p) ==
    /\ Len(s) >= Len(p)
    /\ SubSeq(s, 1, Len(p)) = p

\* String.prototype.includes
Includes(s, p) ==
    \E i \in 0..(Len(s) - Len(p)) : SubSeq(s, i + 1, i + Len(p)) = p

WhiteSpace == {" ", "\n", "\t"}

RECURSIVE TrimStart(_)
TrimStart(s) ==
    IF s # <<>> /\ Head(s) \in WhiteSpace THEN TrimStart(Tail(s)) ELSE s

RECURSIVE TrimEnd(_)
TrimEnd(s) ==
    IF s # <<>> /\ s[Len(s)] \in WhiteSpace
    THEN TrimEnd(SubSeq(s, 1, Len(s) - 1))
    ELSE s

\* String.prototype.trim
Trim(s) == TrimEnd(TrimStart(s))

\* Array.prototype.join on an array of strings
RECURSIVE Join(_, _)
Join(parts, sep) ==
    IF parts = <<>> THEN <<>>
    ELSE IF Len(parts) = 1 THEN parts[1]
    ELSE parts[1] \o sep \o Join(Tail(parts), sep)

UpperCase == <<"A", "B", "C", "D", "E", "F", "G", "H", "I", "J", "K", "L", "M",
               "N", "O", "P", "Q", "R", "S", "T", "U", "V", "W", "X", "Y", "Z">>
LowerCase == <<"a", "b", "c", "d", "e", "f", "g", "h", "i", "j", "k", "l", "m",
               "n", "o", "p", "q", "r", "s", "t", "u", "v", "w", "x", "y", "z">>

LowerChar(c) ==
    IF \E i \in 1..Len(UpperCase) : UpperCase[i] = c
    THEN LowerCase[CHOOSE i \in 1..Len(UpperCase) : UpperCase[i] = c]
    ELSE c

\* String.prototype.toLowerCase
ToLowerCase(s) == [i \in 1..Len(s) |-> LowerChar(s[i])]

\* the value e, computed once v has been computed: a loop's accumulator is
\* settled before the rest of the loop runs
After(v, e) == IF v = v THEN e ELSE e

\* reduce((sum, x) => sum + x, 0)
RECURSIVE SeqSum(_)
SeqSum(s) ==
    IF s = <<>> THEN 0
    ELSE IF Len(s) = 1 THEN s[1]
    ELSE LET half == Len(s) \div 2
         IN  SeqSum(SubSeq(s, 1, half)) + SeqSum(SubSeq(s, half + 1, Len(s)))

S_synthetic == <<"<", "s", "y", "n", "t", "h", "e", "t", "i", "c", ">">>
S_unknown == <<"u", "n", "k", "n", "o", "w", "n">>
S_localCommand == <<"<", "l", "o", "c", "a", "l", "-", "c", "o", "m", "m", "a", "n", "d">>
S_commandName == <<"<", "c", "o", "m", "m", "a", "n", "d", "-", "n", "a", "m", "e">>
S_opus == <<"o", "p", "u", "s">>
S_sonnet == <<"s", "o", "n", "n", "e", "t">>
S_haiku == <<"h", "a", "i", "k", "u">>

---------------------------------------------------------------------------
(* pricing: rate table and cost calculator                                 *)

BillingContexts == {"api", "pro", "max_5x", "max_20x"}

\* PRICING, in cents per million tokens (15 -> 1500, 18.75 -> 1875, 0.30 -> 30)
PRICING ==
    [opus   |-> [input |-> 1500, output |-> 7500, cacheWrite |-> 1875, cacheRead |-> 150],
     sonnet |-> [input |-> 300,  output |-> 1500, cacheWrite |-> 375,  cacheRead |-> 30],
     haiku  |-> [input |-> 100,  output |-> 500,  cacheWrite |-> 125,  cacheRead |-> 10]]

\* faulty variant: the match is case-sensitive
resolveModelFamily_CaseSensitive(model) ==
    IF Includes(model, S_opus) THEN "opus"
    ELSE IF Includes(model, S_sonnet) THEN "sonnet"
    ELSE IF Includes(model, S_haiku) THEN "haiku"
    ELSE "sonnet"

resolveModelFamily(model) ==
    LET lower == ToLowerCase(model)
    IN  IF Includes(lower, S_opus) THEN "opus"
        ELSE IF Includes(lower, S_sonnet) THEN "sonnet"
        ELSE IF Includes(lower, S_haiku) THEN "haiku"
        ELSE "sonnet"

getRates(model) == PRICING[resolveModelFamily(model)]

\* faulty variant: only the Max tiers count as a subscription
isSubscription_MaxOnly(ctx) == ctx \in {"max_5x", "max_20x"}

isSubscription(ctx) == ctx # "api"

\* faulty variant: the input rate is charged on the cache tokens as well
calculateCost_InputRateOnCache(model, usage, ctx) ==
    LET rates == getRates(model)
        inputCost == (usage.inputTokens + usage.cacheCreationTokens
                      + usage.cacheReadTokens) * rates.input
        outputCost == usage.outputTokens * rates.output
        cacheWriteCost == usage.cacheCreationTokens * rates.cacheWrite
        cacheReadCost == usage.cacheReadTokens * rates.cacheRead
        cacheSavings == usage.cacheReadTokens * rates.input - cacheReadCost
    IN  [inputCost |-> inputCost,
         outputCost |-> outputCost,
         cacheWriteCost |-> cacheWriteCost,
         cacheReadCost |-> cacheReadCost,
         totalCost |-> inputCost + outputCost + cacheWriteCost + cacheReadCost,
         cacheSavings |-> cacheSavings,
         isEquivalent |-> isSubscription(ctx)]

\* faulty variant: the total leaves the cache writes out
calculateCost_NoCacheWrite(model, usage, ctx) ==
    LET rates == getRates(model)
        inputCost == usage.inputTokens * rates.input
        outputCost == usage.outputTokens * rates.output
        cacheWriteCost == usage.cacheCreationTokens * rates.cacheWrite
        cacheReadCost == usage.cacheReadTokens * rates.cacheRead
    IN  [inputCost |-> inputCost,
         outputCost |-> outputCost,
         cacheWriteCost |-> cacheWriteCost,
         cacheReadCost |-> cacheReadCost,
         totalCost |-> inputCost + outputCost + cacheReadCost,
         cacheSavings |-> usage.cacheReadTokens * rates.input - cacheReadCost,
         isEquivalent |-> isSubscription(ctx)]

\* (tokens / M) * rate dollars  =  tokens * rate-in-cents  units of 1e-8 USD
calculateCost(model, usage, ctx) ==
    LET rates == getRates(model)
        inputCost == usage.inputTokens * rates.input
        outputCost == usage.outputTokens * rates.output
        cacheWriteCost == usage.cacheCreationTokens * rates.cacheWrite
        cacheReadCost == usage.cacheReadTokens * rates.cacheRead
        cacheSavings == usage.cacheReadTokens * rates.input - cacheReadCost
    IN  [inputCost |-> inputCost,
         outputCost |-> outputCost,
         cacheWriteCost |-> cacheWriteCost,
         cacheReadCost |-> cacheReadCost,
         totalCost |-> inputCost + outputCost + cacheWriteCost + cacheReadCost,
         cacheSavings |-> cacheSavings,
         isEquivalent |-> isSubscription(ctx)]

---------------------------------------------------------------------------
(* pricing: detectBillingContext                                           *)

S_max20x == <<"m", "a", "x", "_", "2", "0", "x">>
S_max5x == <<"m", "a", "x", "_", "5", "x">>
S_pro == <<"p", "r", "o">>

\* the credential file: missing, unreadable (readFileSync throws), not JSON
\* (JSON.parse throws), or a JSON value
CredMissing == [file |-> "missing"]
CredUnreadable == [file |-> "unreadable"]
CredMalformed == [file |-> "malformed"]
CredJsonNull == [file |-> "json", value |-> "null"]
CredJson(oauth) == [file |-> "json", value |-> "object", claudeAiOauth |-> oauth]

\* oauth.rateLimitTier: absent, a string, or a value of another type
TierAbsent == [kind |-> "undefined", str |-> <<>>]
TierString(s) == [kind |-> "string", str |-> s]
TierNumber == [kind |-> "number", str |-> <<>>]
TierArray(items) == [kind |-> "array", str |-> <<>>, items |-> items]

OAuth(sub, tier) == [subscriptionType |-> sub, rateLimitTier |-> tier]

\* tier.includes(marker) where tier = oauth.rateLimitTier || '':
\* String.prototype.includes on a string, Array.prototype.includes on an
\* array, "throws" when the value is truthy and has no includes method
TierIncludes(tier, marker) ==
    IF tier.kind = "number" THEN "throws"
    ELSE IF tier.kind = "array"
    THEN IF \E i \in 1..Len(tier.items) : tier.items[i] = marker THEN "true" ELSE "false"
    ELSE IF Includes(tier.str, marker) THEN "true" ELSE "false"

\* the three marker tests of the code, in order, each `sub === x ||
\* tier.includes(y)` with its short-circuit; "none" when no test matches,
\* "throws" when a test raises
MarkersToContext(oauth) ==
    LET sub == oauth.subscriptionType
        tier == oauth.rateLimitTier
        test(s, marker) == IF sub = Some(s) THEN "true" ELSE TierIncludes(tier, marker)
    IN  IF test("max", S_max20x) = "throws" THEN "throws"
        ELSE IF test("max", S_max20x) = "true" THEN "max_20x"
        ELSE IF test("max", S_max5x) = "true" THEN "max_5x"
        ELSE IF test("pro", S_pro) = "true" THEN "pro"
        ELSE "none"

\* the try block over the credential file, falling through to 'api'
ContextFromCredentials(cred) ==
    IF cred.file # "json" THEN "api"            \* missing, or caught
    ELSE IF cred.value = "null" THEN "api"      \* null.claudeAiOauth: caught
    ELSE IF cred.claudeAiOauth = None THEN "api"
    ELSE LET r == MarkersToContext(cred.claudeAiOauth[1])
         IN  IF r \in {"none", "throws"} THEN "api" ELSE r

\* faulty variant: the API key is tested before the override
detectBillingContext_KeyFirst(override, apiKey, cred) ==
    IF apiKey # None /\ apiKey[1] # "" THEN "api"
    ELSE IF override # None /\ override[1] \in BillingContexts THEN override[1]
    ELSE ContextFromCredentials(cred)

detectBillingContext(override, apiKey, cred) ==
    IF override # None /\ override[1] # "" /\ override[1] \in BillingContexts
    THEN override[1]
    ELSE IF apiKey # None /\ apiKey[1] # "" THEN "api"
    ELSE ContextFromCredentials(cred)

---------------------------------------------------------------------------
(* Decoded journal entries (the values JSON.parse returns)                 *)

\* the JSON value null
JsonNull == [json |-> "null"]

NoContent == [kind |-> "undefined", str |-> <<>>, blocks |-> <<>>]
StringContent(s) == [kind |-> "string", str |-> s, blocks |-> <<>>]
BlockContent(bs) == [kind |-> "blocks", str |-> <<>>, blocks |-> bs]

TextBlock(t) == [type |-> "text", text |-> Some(t), name |-> None]
ToolResultBlock == [type |-> "tool_result", text |-> None, name |-> None]
ToolUseBlock(n) == [type |-> "tool_use", text |-> None, name |-> Some(n)]

Message(role, content, usage, model) ==
    [role |-> role, content |-> content, usage |-> usage, model |-> model]

Entry(type, isMeta, timestamp, message) ==
    [json |-> "object", type |-> type, isMeta |-> isMeta,
     timestamp |-> timestamp, message |-> message]

Usage(i, o, cc, cr) ==
    [input_tokens |-> i, output_tokens |-> o,
     cache_creation_input_tokens |-> cc, cache_read_input_tokens |-> cr]

---------------------------------------------------------------------------
(* extractSessionData: the conversation reconstructor                      *)

\* content.filter(b => b.type === 'text').map(b => b.text ?? '')
RECURSIVE TextsOf(_)
TextsOf(blocks) ==
    IF blocks = <<>> THEN <<>>
    ELSE IF Head(blocks).type = "text"
         THEN <<IF Head(blocks).text = None THEN <<>> ELSE Head(blocks).text[1]>>
              \o TextsOf(Tail(blocks))
         ELSE TextsOf(Tail(blocks))

\* the textContent of a user event
textContentOf(content) ==
    IF content.kind = "string"
    THEN content.str
    ELSE Trim(Join(TextsOf(content.blocks), <<"\n">>))

\* entry.type === 'user' && entry.message?.role === 'user'
IsUserEvent(entry) ==
    /\ entry.type = "user"
    /\ entry.message # None
    /\ entry.message[1].role = Some("user")

\* the two `continue` filters of the user branch
IsSkippedUserEvent(entry) ==
    LET content == entry.message[1].content
    IN  \/ entry.isMeta
        \/ /\ content.kind = "string"
           /\ \/ StartsWith(content.str, S_localCommand)
              \/ StartsWith(content.str, S_commandName)

\* faulty variant: an unconsumed pending prompt is kept, not overwritten
StorePending_KeepFirst(pending, entry) ==
    IF pending # None THEN pending
    ELSE LET t == textContentOf(entry.message[1].content)
         IN  Some([text |-> IF t = <<>> THEN None ELSE Some(t),
                   timestamp |-> entry.timestamp])

\* pendingUserMessage = { text: textContent || null, timestamp: entry.timestamp }
\* (a qualifying user event replaces whatever was pending)
StorePending(pending, entry) ==
    LET t == textContentOf(entry.message[1].content)
    IN  Some([text |-> IF t = <<>> THEN None ELSE Some(t),
              timestamp |-> entry.timestamp])

\* entry.type === 'assistant' && entry.message?.usage
IsAssistantEvent(entry) ==
    /\ entry.type = "assistant"
    /\ entry.message # None
    /\ entry.message[1].usage # None

\* faulty variant: the synthetic marker is read as a missing model id
modelOf_SyntheticAsUnknown(entry) ==
    LET m == entry.message[1].model
    IN  IF m = None \/ m[1] = <<>> \/ m[1] = S_synthetic THEN S_unknown ELSE m[1]

\* entry.message.model || 'unknown'
modelOf(entry) ==
    LET m == entry.message[1].model
    IN  IF m = None \/ m[1] = <<>> THEN S_unknown ELSE m[1]

\* the names of the tool_use blocks of an assistant message
RECURSIVE ToolsOf(_)
ToolsOf(blocks) ==
    IF blocks = <<>> THEN <<>>
    ELSE IF Head(blocks).type = "tool_use" /\ Head(blocks).name # None
         THEN <<Head(blocks).name[1]>> \o ToolsOf(Tail(blocks))
         ELSE ToolsOf(Tail(blocks))

\* faulty variant: the running total is overwritten instead of advanced
AdvanceCumulative_NoSum(cumulative, totalCost) == totalCost

\* cumulativeCost += cost.totalCost
AdvanceCumulative(cumulative, totalCost) == cumulative + totalCost

\* the Query pushed for an assistant event
BuildQuery(pending, cumulative, entry, ctx) ==
    LET usage == entry.message[1].usage[1]
        model == modelOf(entry)
        rawInput == OrZero(usage.input_tokens)
        cacheCreation == OrZero(usage.cache_creation_input_tokens)
        cacheRead == OrZero(usage.cache_read_input_tokens)
        outputTokens == OrZero(usage.output_tokens)
        inputTokens == rawInput + cacheCreation + cacheRead
        content == entry.message[1].content
        cost == calculateCost(model,
                    [inputTokens |-> rawInput, outputTokens |-> outputTokens,
                     cacheCreationTokens |-> cacheCreation,
                     cacheReadTokens |-> cacheRead], ctx)
    IN  [userPrompt |-> IF pending = None THEN None ELSE pending[1].text,
         userTimestamp |-> IF pending = None THEN None ELSE pending[1].timestamp,
         assistantTimestamp |-> entry.timestamp,
         model |-> model,
         inputTokens |-> inputTokens,
         outputTokens |-> outputTokens,
         cacheCreationTokens |-> cacheCreation,
         cacheReadTokens |-> cacheRead,
         totalTokens |-> inputTokens + outputTokens,
         costUSD |-> cost.totalCost,
         cacheSavings |-> cost.cacheSavings,
         cumulativeCost |-> AdvanceCumulative(cumulative, cost.totalCost),
         tools |-> IF content.kind = "blocks" THEN ToolsOf(content.blocks) ELSE <<>>]

ExtractInit ==
    [queries |-> <<>>, pending |-> None, cumulativeCost |-> 0, threw |-> FALSE]

\* one iteration of `for (const entry of entries)`
ExtractStep(st, entry, ctx) ==
    IF entry.json = "null"
    THEN [st EXCEPT !.threw = TRUE]              \* null.type: TypeError
    ELSE IF entry.json # "object"
    THEN st                                      \* a number, a string: no fields
    ELSE IF IsUserEvent(entry)
    THEN IF IsSkippedUserEvent(entry) THEN st
         ELSE IF entry.message[1].content.kind = "undefined"
         THEN [st EXCEPT !.threw = TRUE]         \* undefined.filter: TypeError
         ELSE [st EXCEPT !.pending = StorePending(st.pending, entry)]
    ELSE IF IsAssistantEvent(entry)
    THEN IF modelOf(entry) = S_synthetic THEN st
         ELSE LET q == BuildQuery(st.pending, st.cumulativeCost, entry, ctx)
              IN  [st EXCEPT !.queries = Append(st.queries, q),
                             !.cumulativeCost = q.cumulativeCost]
    ELSE st

\* the whole function; threw = TRUE when the call raises
RECURSIVE ExtractFrom(_, _, _)
ExtractFrom(st, es, ctx) ==
    IF es = <<>> \/ st.threw THEN st
    ELSE IF Len(es) = 1 THEN ExtractStep(st, es[1], ctx)
    ELSE LET half == Len(es) \div 2
         IN  ExtractFrom(ExtractFrom(st, SubSeq(es, 1, half), ctx),
                         SubSeq(es, half + 1, Len(es)), ctx)

extractSessionData(es, ctx) == ExtractFrom(ExtractInit, es, ctx)

---------------------------------------------------------------------------
(* parseJSONLFile: the entry decoder                                       *)

\* one line of a .jsonl file: blank, text JSON.parse rejects, or JSON text
BlankLine == [raw |-> "blank"]
MalformedLine == [raw |-> "malformed"]
JsonLine(v) == [raw |-> "json", value |-> v]

\* the values pushed for the lines of a file: blank lines are skipped, lines
\* JSON.parse rejects are dropped by the catch
RECURSIVE parseJSONLFile(_)
parseJSONLFile(lines) ==
    IF lines = <<>> THEN <<>>
    ELSE IF Head(lines).raw = "json"
         THEN <<Head(lines).value>> \o parseJSONLFile(Tail(lines))
         ELSE parseJSONLFile(Tail(lines))

---------------------------------------------------------------------------
(* parseSubagentSessions                                                   *)

\* the loop over the subagent files inside the try block: a file whose
\* reconstruction raises ends the loop, the Queries pushed so far are kept
\* faulty variant: the subagent files are reconstructed as one stream, the
\* pending prompt and the cumulative cost carried from one file to the next
RECURSIVE EntriesOfAll(_)
EntriesOfAll(files) ==
    IF files = <<>> THEN <<>>
    ELSE parseJSONLFile(Head(files)) \o EntriesOfAll(Tail(files))

SubagentLoop_SharedState(files, acc, ctx) ==
    acc \o extractSessionData(EntriesOfAll(files), ctx).queries

RECURSIVE SubagentLoop(_, _, _)
SubagentLoop(files, acc, ctx) ==
    IF files = <<>> THEN acc
    ELSE LET r == extractSessionData(parseJSONLFile(Head(files)), ctx)
         IN  IF r.threw THEN acc
             ELSE SubagentLoop(Tail(files), acc \o r.queries, ctx)

\* subagents: None when the session has no subagents directory
parseSubagentSessions(subagents, ctx) ==
    IF subagents = None THEN <<>>
    ELSE SubagentLoop(subagents[1], <<>>, ctx)

---------------------------------------------------------------------------
(* parseAllSessions: the per-file fold                                     *)

\* the sum of one numeric field over a list of records
SumOf(rs, field) == SeqSum([i \in 1..Len(rs) |-> rs[i][field]])

\* a JavaScript string used as a condition
Truthy(o) == o # None /\ o[1] # <<>>

\* String.prototype.substring(0, n) and Array.prototype.slice(0, n)
Take(s, n) == IF Len(s) <= n THEN s ELSE SubSeq(s, 1, n)

\* s.split('T')[0]
RECURSIVE BeforeT(_)
BeforeT(s) ==
    IF s = <<>> \/ Head(s) = "T" THEN <<>> ELSE <<Head(s)>> \o BeforeT(Tail(s))

\* entries.find(e => e.timestamp)?.timestamp
RECURSIVE firstTimestampOf(_)
firstTimestampOf(es) ==
    IF es = <<>> THEN None
    ELSE IF Head(es).json = "object" /\ Truthy(Head(es).timestamp)
         THEN Head(es).timestamp
         ELSE firstTimestampOf(Tail(es))

S_unknownDate == S_unknown
S_noPrompt == <<"(", "n", "o", " ", "p", "r", "o", "m", "p", "t", ")">>

dateOf(firstTimestamp) ==
    IF Truthy(firstTimestamp) THEN BeforeT(firstTimestamp[1]) ELSE S_unknownDate

\* queries.filter(q => q.assistantTimestamp)
HasAssistantTimestamp(q) == Truthy(q.assistantTimestamp)

WithTimestamp(qs) == SelectSeq(qs, HasAssistantTimestamp)

\* faulty variant: a point carries the Query's own cost, not the running total
costCurveOf_OwnCost(qs) ==
    LET kept == WithTimestamp(qs)
    IN  [i \in 1..Len(kept) |->
            [messageIndex |-> i - 1,
             timestamp |-> kept[i].assistantTimestamp[1],
             cumulativeCost |-> kept[i].costUSD]]

\* .map((q, i) => ({ messageIndex: i, timestamp, cumulativeCost })) on the
\* filtered list: i is the 0-based index in the filtered list
costCurveOf(qs) ==
    LET kept == WithTimestamp(qs)
    IN  [i \in 1..Len(kept) |->
            [messageIndex |-> i - 1,
             timestamp |-> kept[i].assistantTimestamp[1],
             cumulativeCost |-> kept[i].cumulativeCost]]

\* modelCounts, in insertion order: <<[model, count]>>
RECURSIVE CountModels(_, _)
CountModels(qs, counts) ==
    IF qs = <<>> THEN counts
    ELSE IF Len(qs) = 1
    THEN LET m == qs[1].model
             hit == {i \in 1..Len(counts) : counts[i].model = m}
         IN  IF hit = {}
             THEN Append(counts, [model |-> m, count |-> 1])
             ELSE [i \in 1..Len(counts) |->
                      IF i \in hit
                      THEN [counts[i] EXCEPT !.count = @ + 1]
                      ELSE counts[i]]
    ELSE LET half == Len(qs) \div 2
             left == CountModels(SubSeq(qs, 1, half), counts)
         IN  After(left, CountModels(SubSeq(qs, half + 1, Len(qs)), left))

\* Object.entries(modelCounts).sort((a, b) => b[1] - a[1])[0]?.[0] || 'unknown':
\* the first-inserted model among those with the highest count
primaryModelOf(qs) ==
    LET counts == CountModels(qs, <<>>)
    IN  IF counts = <<>> THEN S_unknown
        ELSE LET best == CHOOSE i \in 1..Len(counts) :
                             /\ \A j \in 1..Len(counts) : counts[j].count <= counts[i].count
                             /\ \A j \in 1..(i - 1) : counts[j].count < counts[i].count
             IN  IF counts[best].model = <<>> THEN S_unknown ELSE counts[best].model

\* queries.find(q => q.userPrompt)?.userPrompt
firstUserPromptOf(qs) ==
    LET hits == {i \in 1..Len(qs) : Truthy(qs[i].userPrompt)}
    IN  IF hits = {} THEN None
        ELSE qs[CHOOSE i \in hits : \A j \in hits : i <= j].userPrompt

\* sessionFirstPrompt[sessionId] || first prompt || '(no prompt)'
firstPromptOf(firstPrompts, sessionId, qs) ==
    LET hit == {i \in 1..Len(firstPrompts) :
                    firstPrompts[i].sessionId = sessionId /\ firstPrompts[i].display # <<>>}
    IN  IF hit # {} THEN firstPrompts[CHOOSE i \in hit : TRUE].display
        ELSE IF firstUserPromptOf(qs) # None THEN firstUserPromptOf(qs)[1]
        ELSE S_noPrompt

\* faulty variant: a group is pushed whenever it has a prompt
flushPrompt_EmitsEmpty(g, out, date, sessionId, model) ==
    IF Truthy(g.currentPrompt)
    THEN Append(out,
            [prompt |-> Take(g.currentPrompt[1], 300),
             inputTokens |-> g.promptInput,
             outputTokens |-> g.promptOutput,
             totalTokens |-> g.promptInput + g.promptOutput,
             costUSD |-> g.promptCost,
             date |-> date,
             sessionId |-> sessionId,
             model |-> model])
    ELSE out

\* flushPrompt: the group is pushed when it has a prompt and any tokens
flushPrompt(g, out, date, sessionId, model) ==
    IF Truthy(g.currentPrompt) /\ (g.promptInput + g.promptOutput) > 0
    THEN Append(out,
            [prompt |-> Take(g.currentPrompt[1], 300),
             inputTokens |-> g.promptInput,
             outputTokens |-> g.promptOutput,
             totalTokens |-> g.promptInput + g.promptOutput,
             costUSD |-> g.promptCost,
             date |-> date,
             sessionId |-> sessionId,
             model |-> model])
    ELSE out

\* the body of the grouping loop, over the queries qs in order; acc is the
\* pair of the running group and the prompts pushed so far
RECURSIVE PromptFold(_, _, _, _, _)
PromptFold(qs, acc, date, sessionId, model) ==
    IF qs = <<>> THEN acc
    ELSE IF Len(qs) = 1
    THEN LET q == qs[1]
             g == acc.g
             starts == Truthy(q.userPrompt) /\ q.userPrompt # g.currentPrompt
             out2 == IF starts THEN flushPrompt(g, acc.out, date, sessionId, model)
                     ELSE acc.out
             g1 == IF starts
                   THEN [currentPrompt |-> q.userPrompt, promptInput |-> 0,
                         promptOutput |-> 0, promptCost |-> 0]
                   ELSE g
             g2 == [g1 EXCEPT !.promptInput = @ + q.inputTokens,
                              !.promptOutput = @ + q.outputTokens,
                              !.promptCost = @ + q.costUSD]
         IN  [g |-> g2, out |-> out2]
    ELSE LET half == Len(qs) \div 2
             left == PromptFold(SubSeq(qs, 1, half), acc, date, sessionId, model)
         IN  After(left, PromptFold(SubSeq(qs, half + 1, Len(qs)), left,
                                    date, sessionId, model))

\* the grouping loop over a session's queries, then the final flush
PromptLoop(qs, g, out, date, sessionId, model) ==
    LET done == PromptFold(qs, [g |-> g, out |-> out], date, sessionId, model)
    IN  flushPrompt(done.g, done.out, date, sessionId, model)

sessionPrompts(qs, prompts, date, sessionId, model) ==
    PromptLoop(qs,
        [currentPrompt |-> None, promptInput |-> 0, promptOutput |-> 0, promptCost |-> 0],
        prompts, date, sessionId, model)

\* faulty variant: the subagent costs are not added to the session's costUSD
sessionCostUSD_OwnOnly(qs, subagentQueries) == SumOf(qs, "costUSD")

\* costUSD: the own Queries' costs, then the subagent Queries' costs added
sessionCostUSD(qs, subagentQueries) ==
    SumOf(qs, "costUSD") + SumOf(subagentQueries, "costUSD")

\* sessions.push({...})
BuildSession(project, sessionId, es, qs, subagentQueries, firstPrompts) ==
    LET inputTokens == SumOf(qs, "inputTokens")
        outputTokens == SumOf(qs, "outputTokens")
        totalCacheRead == SumOf(qs, "cacheReadTokens")
        totalInputAll == SumOf(qs, "inputTokens")
        firstTimestamp == firstTimestampOf(es)
    IN  [sessionId |-> sessionId,
         project |-> project,
         date |-> dateOf(firstTimestamp),
         timestamp |-> firstTimestamp,
         firstPrompt |-> Take(firstPromptOf(firstPrompts, sessionId, qs), 200),
         model |-> primaryModelOf(qs),
         queryCount |-> Len(qs),
         queries |-> qs,
         inputTokens |-> inputTokens,
         outputTokens |-> outputTokens,
         totalTokens |-> inputTokens + outputTokens,
         costUSD |-> sessionCostUSD(qs, subagentQueries),
         cacheSavings |-> SumOf(qs, "cacheSavings") + SumOf(subagentQueries, "cacheSavings"),
         \* totalCacheRead / totalInputAll, kept as a fraction (0 when no input)
         cacheEfficiency |-> IF totalInputAll > 0
                             THEN [num |-> totalCacheRead, den |-> totalInputAll]
                             ELSE [num |-> 0, den |-> 1],
         costCurve |-> costCurveOf(qs),
         subagentCost |-> SumOf(subagentQueries, "costUSD"),
         subagentQueries |-> subagentQueries]

\* dailyMap[date] += the session's totals (skipped for date 'unknown')
addToDailyMap_LastWins(daily, s) ==
    IF s.date = S_unknownDate THEN daily
    ELSE LET hit == {i \in 1..Len(daily) : daily[i].date = s.date}
             base == IF hit = {}
                     THEN Append(daily, [date |-> s.date, inputTokens |-> 0,
                                         outputTokens |-> 0, totalTokens |-> 0,
                                         costUSD |-> 0, sessions |-> 0, queries |-> 0])
                     ELSE daily
         IN  [i \in 1..Len(base) |->
                 IF base[i].date = s.date
                 THEN [base[i] EXCEPT !.inputTokens = s.inputTokens,
                                      !.outputTokens = s.outputTokens,
                                      !.totalTokens = s.totalTokens,
                                      !.costUSD = s.costUSD,
                                      !.sessions = @ + 1,
                                      !.queries = @ + Len(s.queries)]
                 ELSE base[i]]

\* dailyMap[session.date] += session, unless the date is unknown
addToDailyMap(daily, s) ==
    IF s.date = S_unknownDate THEN daily
    ELSE LET hit == {i \in 1..Len(daily) : daily[i].date = s.date}
             base == IF hit = {}
                     THEN Append(daily, [date |-> s.date, inputTokens |-> 0,
                                         outputTokens |-> 0, totalTokens |-> 0,
                                         costUSD |-> 0, sessions |-> 0, queries |-> 0])
                     ELSE daily
         IN  [i \in 1..Len(base) |->
                 IF base[i].date = s.date
                 THEN [base[i] EXCEPT !.inputTokens = @ + s.inputTokens,
                                      !.outputTokens = @ + s.outputTokens,
                                      !.totalTokens = @ + s.totalTokens,
                                      !.costUSD = @ + s.costUSD,
                                      !.sessions = @ + 1,
                                      !.queries = @ + Len(s.queries)]
                 ELSE base[i]]

\* faulty variant: the Queries of an unknown model are aggregated too
RECURSIVE addToModelMap_NoSkip(_, _)
addToModelMap_NoSkip(models, qs) ==
    IF qs = <<>> THEN models
    ELSE LET q == Head(qs)
             hit == {i \in 1..Len(models) : models[i].model = q.model}
             base == IF hit = {}
                     THEN Append(models, [model |-> q.model, inputTokens |-> 0,
                                          outputTokens |-> 0, totalTokens |-> 0,
                                          costUSD |-> 0, queryCount |-> 0])
                     ELSE models
             next == [i \in 1..Len(base) |->
                         IF base[i].model = q.model
                         THEN [base[i] EXCEPT !.inputTokens = @ + q.inputTokens,
                                              !.outputTokens = @ + q.outputTokens,
                                              !.totalTokens = @ + q.totalTokens,
                                              !.costUSD = @ + q.costUSD,
                                              !.queryCount = @ + 1]
                         ELSE base[i]]
         IN  addToModelMap_NoSkip(next, Tail(qs))

\* modelMap[q.model] += q, for the Queries whose model is neither
\* '<synthetic>' nor 'unknown'
RECURSIVE addToModelMap(_, _)
addToModelMap(models, qs) ==
    IF qs = <<>> THEN models
    ELSE LET q == Head(qs)
         IN  IF q.model = S_synthetic \/ q.model = S_unknown
             THEN addToModelMap(models, Tail(qs))
             ELSE LET hit == {i \in 1..Len(models) : models[i].model = q.model}
                      base == IF hit = {}
                              THEN Append(models, [model |-> q.model, inputTokens |-> 0,
                                                   outputTokens |-> 0, totalTokens |-> 0,
                                                   costUSD |-> 0, queryCount |-> 0])
                              ELSE models
                      next == [i \in 1..Len(base) |->
                                  IF base[i].model = q.model
                                  THEN [base[i] EXCEPT !.inputTokens = @ + q.inputTokens,
                                                       !.outputTokens = @ + q.outputTokens,
                                                       !.totalTokens = @ + q.totalTokens,
                                                       !.costUSD = @ + q.costUSD,
                                                       !.queryCount = @ + 1]
                                  ELSE base[i]]
                  IN  addToModelMap(next, Tail(qs))

---------------------------------------------------------------------------
(* parseAllSessions: the folds over the session list                       *)

\* Array.prototype.sort((a, b) => b[field] - a[field]), which is stable
RECURSIVE InsertDesc(_, _, _)
InsertDesc(sorted, x, field) ==
    IF sorted = <<>> THEN <<x>>
    ELSE IF Head(sorted)[field] >= x[field]
         THEN <<Head(sorted)>> \o InsertDesc(Tail(sorted), x, field)
         ELSE <<x>> \o sorted

RECURSIVE SortDesc(_, _)
SortDesc(s, field) ==
    IF s = <<>> THEN <<>>
    ELSE InsertDesc(SortDesc(SubSeq(s, 1, Len(s) - 1), field), s[Len(s)], field)

\* the order of the characters that occur in dates
CharOrder == <<"-", "0", "1", "2", "3", "4", "5", "6", "7", "8", "9", "D", "u">>
CharRank(c) ==
    IF \E i \in 1..Len(CharOrder) : CharOrder[i] = c
    THEN CHOOSE i \in 1..Len(CharOrder) : CharOrder[i] = c
    ELSE Len(CharOrder) + 1

\* a.localeCompare(b) <= 0
RECURSIVE StringLeq(_, _)
StringLeq(a, b) ==
    IF a = <<>> THEN TRUE
    ELSE IF b = <<>> THEN FALSE
    ELSE IF Head(a) = Head(b) THEN StringLeq(Tail(a), Tail(b))
    ELSE CharRank(Head(a)) < CharRank(Head(b))

\* Object.values(dailyMap).sort((a, b) => a.date.localeCompare(b.date))
RECURSIVE InsertByDate(_, _)
InsertByDate(sorted, x) ==
    IF sorted = <<>> THEN <<x>>
    ELSE IF StringLeq(Head(sorted).date, x.date)
         THEN <<Head(sorted)>> \o InsertByDate(Tail(sorted), x)
         ELSE <<x>> \o sorted

RECURSIVE SortByDate(_)
SortByDate(s) ==
    IF s = <<>> THEN <<>>
    ELSE InsertByDate(SortByDate(SubSeq(s, 1, Len(s) - 1)), s[Len(s)])

\* a count map in insertion order, <<[key, count]>>: m[k] = (m[k] || 0) + 1
Bump(m, k) ==
    IF \E i \in 1..Len(m) : m[i].key = k
    THEN [i \in 1..Len(m) |-> IF m[i].key = k THEN [m[i] EXCEPT !.count = @ + 1] ELSE m[i]]
    ELSE Append(m, [key |-> k, count |-> 1])

RECURSIVE BumpAll(_, _)
BumpAll(m, ks) == IF ks = <<>> THEN m ELSE BumpAll(Bump(m, Head(ks)), Tail(ks))

\* Object.entries(m).sort((a, b) => b[1] - a[1])[0]?.[0]
TopKey(m) ==
    IF m = <<>> THEN None
    ELSE Some(SortDesc(m, "count")[1].key)

\* faulty variant: the per-project pass pushes a group whenever it has a prompt
flushProjectPrompt_EmitsEmpty(g, out, session) ==
    IF Truthy(g.curPrompt)
    THEN Append(out,
            [prompt |-> Take(g.curPrompt[1], 300),
             inputTokens |-> g.curInput,
             outputTokens |-> g.curOutput,
             totalTokens |-> g.curInput + g.curOutput,
             costUSD |-> g.curCost,
             continuations |-> g.curConts,
             model |-> IF TopKey(g.curModels) # None /\ TopKey(g.curModels)[1] # <<>>
                       THEN TopKey(g.curModels)[1] ELSE session.model,
             toolCounts |-> g.curTools,
             date |-> session.date,
             sessionId |-> session.sessionId])
    ELSE out

\* flushProjectPrompt
flushProjectPrompt(g, out, session) ==
    IF Truthy(g.curPrompt) /\ (g.curInput + g.curOutput) > 0
    THEN Append(out,
            [prompt |-> Take(g.curPrompt[1], 300),
             inputTokens |-> g.curInput,
             outputTokens |-> g.curOutput,
             totalTokens |-> g.curInput + g.curOutput,
             costUSD |-> g.curCost,
             continuations |-> g.curConts,
             model |-> IF TopKey(g.curModels) # None /\ TopKey(g.curModels)[1] # <<>>
                       THEN TopKey(g.curModels)[1] ELSE session.model,
             toolCounts |-> g.curTools,
             date |-> session.date,
             sessionId |-> session.sessionId])
    ELSE out

NoGroup ==
    [curPrompt |-> None, curInput |-> 0, curOutput |-> 0, curConts |-> 0,
     curCost |-> 0, curModels |-> <<>>, curTools |-> <<>>]

\* the per-project grouping loop over one session's queries
RECURSIVE ProjectPromptLoop(_, _, _, _)
ProjectPromptLoop(qs, g, out, session) ==
    IF qs = <<>> THEN flushProjectPrompt(g, out, session)
    ELSE LET q == Head(qs)
             starts == Truthy(q.userPrompt) /\ q.userPrompt # g.curPrompt
             out2 == IF starts THEN flushProjectPrompt(g, out, session) ELSE out
             g1 == IF starts THEN [NoGroup EXCEPT !.curPrompt = q.userPrompt]
                   ELSE IF ~Truthy(q.userPrompt) THEN [g EXCEPT !.curConts = @ + 1]
                   ELSE g
             g2 == [g1 EXCEPT !.curInput = @ + q.inputTokens,
                              !.curOutput = @ + q.outputTokens,
                              !.curCost = @ + q.costUSD,
                              !.curModels = IF q.model # <<>> /\ q.model # S_synthetic
                                            THEN Bump(@, q.model) ELSE @,
                              !.curTools = BumpAll(@, q.tools)]
         IN  ProjectPromptLoop(Tail(qs), g2, out2, session)

EmptyProject(proj) ==
    [project |-> proj, inputTokens |-> 0, outputTokens |-> 0, totalTokens |-> 0,
     costUSD |-> 0, sessionCount |-> 0, queryCount |-> 0,
     modelMap |-> <<>>, allPrompts |-> <<>>]

\* faulty variant: the project's queryCount is advanced by one per session
addSessionToProject_CountOne(p, session) ==
    [p EXCEPT !.inputTokens = @ + session.inputTokens,
              !.outputTokens = @ + session.outputTokens,
              !.totalTokens = @ + session.totalTokens,
              !.costUSD = @ + session.costUSD,
              !.sessionCount = @ + 1,
              !.queryCount = @ + 1,
              !.modelMap = addToModelMap(@, session.queries),
              !.allPrompts = ProjectPromptLoop(session.queries, NoGroup, @, session)]

\* one iteration of the loop over the sorted sessions, on the session's project
addSessionToProject(p, session) ==
    [p EXCEPT !.inputTokens = @ + session.inputTokens,
              !.outputTokens = @ + session.outputTokens,
              !.totalTokens = @ + session.totalTokens,
              !.costUSD = @ + session.costUSD,
              !.sessionCount = @ + 1,
              !.queryCount = @ + session.queryCount,
              !.modelMap = addToModelMap(@, session.queries),
              !.allPrompts = ProjectPromptLoop(session.queries, NoGroup, @, session)]

\* projectMap, in insertion order
RECURSIVE buildProjectMap(_, _)
buildProjectMap(ss, pm) ==
    IF ss = <<>> THEN pm
    ELSE LET s == Head(ss)
             base == IF \E i \in 1..Len(pm) : pm[i].project = s.project
                     THEN pm ELSE Append(pm, EmptyProject(s.project))
             next == [i \in 1..Len(base) |->
                         IF base[i].project = s.project
                         THEN addSessionToProject(base[i], s) ELSE base[i]]
         IN  buildProjectMap(Tail(ss), next)

\* Object.values(projectMap).map(...).sort(by totalTokens, descending)
projectBreakdownOf(pm) ==
    SortDesc([i \in 1..Len(pm) |->
                 [project |-> pm[i].project,
                  inputTokens |-> pm[i].inputTokens,
                  outputTokens |-> pm[i].outputTokens,
                  totalTokens |-> pm[i].totalTokens,
                  costUSD |-> pm[i].costUSD,
                  sessionCount |-> pm[i].sessionCount,
                  queryCount |-> pm[i].queryCount,
                  modelBreakdown |-> SortDesc(pm[i].modelMap, "totalTokens"),
                  topPrompts |-> Take(SortDesc(pm[i].allPrompts, "totalTokens"), 10)]],
             "totalTokens")

\* Math.round(a / b) for a >= 0, b > 0
RoundDiv(a, b) == (2 * a + b) \div (2 * b)

\* a quotient kept as a fraction
Frac(a, b) == [num |-> a, den |-> b]

\* grandTotals
grandTotalsOf(ss, dailyUsage) ==
    LET totalQueries == SumOf(ss, "queryCount")
        totalTokens == SumOf(ss, "totalTokens")
        totalCostUSD == SumOf(ss, "costUSD")
    IN  [totalSessions |-> Len(ss),
         totalQueries |-> totalQueries,
         totalTokens |-> totalTokens,
         totalInputTokens |-> SumOf(ss, "inputTokens"),
         totalOutputTokens |-> SumOf(ss, "outputTokens"),
         totalCostUSD |-> totalCostUSD,
         totalCacheSavings |-> SumOf(ss, "cacheSavings"),
         avgTokensPerQuery |-> IF totalQueries > 0 THEN RoundDiv(totalTokens, totalQueries) ELSE 0,
         avgTokensPerSession |-> IF Len(ss) > 0 THEN RoundDiv(totalTokens, Len(ss)) ELSE 0,
         avgCostPerSession |-> IF Len(ss) > 0 THEN Frac(totalCostUSD, Len(ss)) ELSE Frac(0, 1),
         avgCostPerQuery |-> IF totalQueries > 0 THEN Frac(totalCostUSD, totalQueries) ELSE Frac(0, 1),
         dateRange |-> IF Len(dailyUsage) > 0
                       THEN Some([from |-> dailyUsage[1].date,
                                  to |-> dailyUsage[Len(dailyUsage)].date])
                       ELSE None]

---------------------------------------------------------------------------
(* generateInsights: thirteen detectors, evaluated in the order of the     *)
(* code. An Insight is modelled by its id and its type; the texts built    *)
(* from the figures (title, description, action) are not modelled. The     *)
(* quotients of the code are compared exactly, as fractions.               *)

Insight(id, type) == [id |-> id, type |-> type]

\* a / b < c / d for a, c >= 0 and b, d > 0, without forming a product
RECURSIVE FracLess(_, _, _, _)
FracLess(a, b, c, d) ==
    LET q1 == a \div b
        q2 == c \div d
        r1 == a % b
        r2 == c % d
    IN  IF q1 # q2 THEN q1 < q2
        ELSE IF r2 = 0 THEN FALSE
        ELSE IF r1 = 0 THEN TRUE
        ELSE FracLess(d, r2, b, r1)

RECURSIVE GCD(_, _)
GCD(a, b) == IF b = 0 THEN a ELSE GCD(b, a % b)

FracAdd(x, y) ==
    LET g == GCD(x.den, y.den)
    IN  Frac(x.num * (y.den \div g) + y.num * (x.den \div g), (x.den \div g) * y.den)

\* reduce((s, ses) => s + ses.costUSD / ses.queryCount, 0)
RECURSIVE SumCostPerQuery(_)
SumCostPerQuery(ss) ==
    IF ss = <<>> THEN Frac(0, 1)
    ELSE FracAdd(SumCostPerQuery(SubSeq(ss, 1, Len(ss) - 1)),
                 Frac(ss[Len(ss)].costUSD, ss[Len(ss)].queryCount))

Max(a, b) == IF a >= b THEN a ELSE b
Min(a, b) == IF a <= b THEN a ELSE b

\* Array.prototype.slice(-n)
LastN(s, n) == IF Len(s) <= n THEN s ELSE SubSeq(s, Len(s) - n + 1, Len(s))

\* amounts of the code in units of 1e-8 USD
USD_0_0001 == 10000
USD_0_01 == 1000000
USD_0_50 == 50000000
USD_1 == 100000000

\* new Date(timestamp).getDay() and the day count of a date, for the
\* timestamps 'D<n>T..' and dates 'D<n>' of the model: day n of the period
Digits == <<"1", "2", "3", "4", "5", "6", "7", "8", "9">>
DayNumber(s) == CHOOSE n \in 1..Len(Digits) : Digits[n] = s[2]
getDay(timestamp) == DayNumber(timestamp) % 7

\* 1. short, vague messages that cost a lot
vaguePrompts(prompts) ==
    LET shortExpensive ==
            SelectSeq(prompts, LAMBDA q : Len(Trim(q.prompt)) < 30 /\ q.totalTokens > 100000)
    IN  IF Len(shortExpensive) > 0 THEN <<Insight("vague-prompts", "warning")>> ELSE <<>>

\* ratio = last5 / Math.max(first5, 0.0001), both sums divided by
\* Math.min(5, s.queries.length)
growthRatioOver2(s) ==
    LET n == Min(5, Len(s.queries))
        firstSum == SumOf(Take(s.queries, 5), "costUSD")
        lastSum == SumOf(LastN(s.queries, 5), "costUSD")
    IN  lastSum > 2 * Max(firstSum, USD_0_0001 * n)

\* faulty variant: every long session counts, whatever its ratio
contextGrowth_AnyLongSession(ss) ==
    LET longSessions == SelectSeq(ss, LAMBDA s : Len(s.queries) > 50)
    IN  IF Len(longSessions) > 0 THEN <<Insight("context-growth", "warning")>> ELSE <<>>

\* 2. long conversations getting more expensive over time
contextGrowth(ss) ==
    LET longSessions == SelectSeq(ss, LAMBDA s : Len(s.queries) > 50)
        growthData == SelectSeq(longSessions, growthRatioOver2)
    IN  IF Len(longSessions) > 0 /\ Len(growthData) > 0
        THEN <<Insight("context-growth", "warning")>>
        ELSE <<>>

\* 3. marathon conversations
marathonSessions(ss) ==
    LET longCount == Len(SelectSeq(ss, LAMBDA s : s.queryCount > 200))
    IN  IF longCount >= 3 THEN <<Insight("marathon-sessions", "info")>> ELSE <<>>

\* 4. most tokens are re-reading, not writing: outputPct < 2
inputHeavy(totals) ==
    IF totals.totalTokens > 0 /\ FracLess(totals.totalOutputTokens, totals.totalTokens, 2, 100)
    THEN <<Insight("input-heavy", "info")>>
    ELSE <<>>

\* 5. day-of-week pattern
dayPattern(ss) ==
    LET dated == SelectSeq(ss, LAMBDA s : Truthy(s.timestamp))
        days == {getDay(dated[i].timestamp[1]) : i \in 1..Len(dated)}
    IN  IF Len(ss) >= 10 /\ Cardinality(days) >= 3
        THEN <<Insight("day-pattern", "neutral")>>
        ELSE <<>>

\* 6. Opus used for simple conversations
modelMismatch(ss) ==
    LET opusSessions == SelectSeq(ss, LAMBDA s : Includes(s.model, S_opus))
        simpleOpus == SelectSeq(opusSessions,
                                LAMBDA s : s.queryCount < 10 /\ s.totalTokens < 200000)
    IN  IF Len(opusSessions) > 0 /\ Len(simpleOpus) >= 3
        THEN <<Insight("model-mismatch", "warning")>>
        ELSE <<>>

\* s.queries.filter(q => q.userPrompt).length
userMessagesOf(s) == Len(SelectSeq(s.queries, LAMBDA q : Truthy(q.userPrompt)))

\* 7. tool-heavy conversations
toolHeavy(ss) ==
    LET heavy == SelectSeq(ss,
                     LAMBDA s : /\ userMessagesOf(s) > 0
                                /\ s.queryCount - userMessagesOf(s) > userMessagesOf(s) * 3)
    IN  IF Len(ss) >= 5 /\ Len(heavy) >= 3
        THEN <<Insight("tool-heavy", "info")>>
        ELSE <<>>

\* projectCosts[proj].cost += s.costUSD, in insertion order
RECURSIVE projectCostsOf(_, _)
projectCostsOf(acc, ss) ==
    IF ss = <<>> THEN acc
    ELSE LET s == Head(ss)
             proj == IF s.project = "" THEN "unknown" ELSE s.project
             base == IF \E i \in 1..Len(acc) : acc[i].project = proj THEN acc
                     ELSE Append(acc, [project |-> proj, tokens |-> 0, cost |-> 0])
             next == [i \in 1..Len(base) |->
                         IF base[i].project = proj
                         THEN [base[i] EXCEPT !.tokens = @ + s.totalTokens,
                                              !.cost = @ + s.costUSD]
                         ELSE base[i]]
         IN  projectCostsOf(next, Tail(ss))

\* 8. one project dominates usage: pctNum >= 60
projectDominance(ss, totals) ==
    LET sorted == SortDesc(projectCostsOf(<<>>, ss), "cost")
    IN  IF /\ Len(ss) >= 5
           /\ Len(sorted) >= 2
           /\ ~FracLess(sorted[1].cost, Max(totals.totalCostUSD, USD_0_01), 60, 100)
        THEN <<Insight("project-dominance", "info")>>
        ELSE <<>>

\* 9. cost per message in short and in long conversations: ratioNum >= 2
conversationEfficiency(ss) ==
    LET shortSessions == SelectSeq(ss, LAMBDA s : s.queryCount >= 3 /\ s.queryCount <= 15)
        longSessions2 == SelectSeq(ss, LAMBDA s : s.queryCount > 80)
        shortSum == SumCostPerQuery(shortSessions)
        longSum == SumCostPerQuery(longSessions2)
        \* longAvgCost >= 2 * Math.max(shortAvgCost, 0.0001)
        atLeastTwice ==
            /\ ~FracLess(longSum.num, longSum.den * Len(longSessions2),
                         2 * shortSum.num, shortSum.den * Len(shortSessions))
            /\ ~FracLess(longSum.num, longSum.den * Len(longSessions2), 2 * USD_0_0001, 1)
    IN  IF /\ Len(ss) >= 10
           /\ Len(shortSessions) >= 3
           /\ Len(longSessions2) >= 2
           /\ atLeastTwice
        THEN <<Insight("conversation-efficiency", "warning")>>
        ELSE <<>>

\* 10. heavy context on the first message
heavyContext(ss) ==
    LET heavyStarts == SelectSeq(ss,
                           LAMBDA s : s.queries # <<>> /\ s.queries[1].inputTokens > 50000)
    IN  IF Len(ss) >= 5 /\ Len(heavyStarts) >= 5
        THEN <<Insight("heavy-context", "info")>>
        ELSE <<>>

\* s.queries.length > 20 && s.cacheEfficiency < 0.5 && s.costUSD > 0.50
lowCache(s) ==
    /\ Len(s.queries) > 20
    /\ FracLess(s.cacheEfficiency.num, s.cacheEfficiency.den, 1, 2)
    /\ s.costUSD > USD_0_50

\* 11. low cache reuse
cacheEfficiencyInsight(ss) ==
    IF Len(SelectSeq(ss, lowCache)) >= 2
    THEN <<Insight("cache-efficiency", "warning")>>
    ELSE <<>>

\* 12. subagent overhead: Number(pct) > 20 where pct is the percentage
\* rounded to an integer by toFixed(0), i.e. the percentage is >= 20.5
subagentOverhead(ss) ==
    LET withSubagents == SelectSeq(ss, LAMBDA s : s.subagentCost > 0)
        totalSubagentCost == SumOf(withSubagents, "subagentCost")
        totalParentCost == SumOf(withSubagents, "costUSD")
    IN  IF /\ Len(withSubagents) >= 2
           /\ ~FracLess(totalSubagentCost, Max(totalParentCost, USD_0_01), 41, 200)
        THEN <<Insight("subagent-overhead", "info")>>
        ELSE <<>>

\* getSubscriptionMonthlyCost, in USD
SUBSCRIPTION_MONTHLY == [api |-> 0, pro |-> 20, max_5x |-> 100, max_20x |-> 200]

\* Math.max(1, Math.ceil((to - from) / day) + 1), or 30 without a date range
daysInRangeOf(totals) ==
    IF totals.dateRange = None THEN 30
    ELSE Max(1, DayNumber(totals.dateRange[1].to) - DayNumber(totals.dateRange[1].from) + 1)

\* 13. subscription value: savings = totalCostUSD / daysInRange * 30 - fee
subscriptionValue(totals, ctx) ==
    IF isSubscription(ctx) /\ totals.totalCostUSD > 0
    THEN IF FracLess(SUBSCRIPTION_MONTHLY[ctx] * daysInRangeOf(totals), 30,
                     totals.totalCostUSD, USD_1)
         THEN <<Insight("subscription-value", "info")>>
         ELSE <<Insight("subscription-value", "neutral")>>
    ELSE <<>>

\* faulty variant: the warnings are listed before the other insights
generateInsights_WarningsFirst(ss, prompts, totals, ctx) ==
    vaguePrompts(prompts) \o contextGrowth(ss) \o modelMismatch(ss)
    \o conversationEfficiency(ss) \o cacheEfficiencyInsight(ss)
    \o marathonSessions(ss) \o inputHeavy(totals) \o dayPattern(ss)
    \o toolHeavy(ss) \o projectDominance(ss, totals)
    \o heavyContext(ss) \o subagentOverhead(ss)
    \o subscriptionValue(totals, ctx)

generateInsights(ss, prompts, totals, ctx) ==
    vaguePrompts(prompts) \o contextGrowth(ss) \o marathonSessions(ss)
    \o inputHeavy(totals) \o dayPattern(ss) \o modelMismatch(ss)
    \o toolHeavy(ss) \o projectDominance(ss, totals)
    \o conversationEfficiency(ss) \o heavyContext(ss)
    \o cacheEfficiencyInsight(ss) \o subagentOverhead(ss)
    \o subscriptionValue(totals, ctx)

\* the DashboardData returned when the projects directory does not exist
emptyResult(ctx) ==
    [sessions |-> <<>>, dailyUsage |-> <<>>, modelBreakdown |-> <<>>,
     projectBreakdown |-> <<>>, topPrompts |-> <<>>,
     totals |-> grandTotalsOf(<<>>, <<>>),
     insights |-> <<>>,
     billingContext |-> ctx, isEquivalentCost |-> isSubscription(ctx)]

\* the DashboardData returned after the loop over the files
dashboardOf(ss, daily, models, prompts, ctx) ==
    LET sorted == SortDesc(ss, "totalTokens")
        dailyUsage == SortByDate(daily)
    IN  [sessions |-> sorted,
         dailyUsage |-> dailyUsage,
         modelBreakdown |-> models,
         projectBreakdown |-> projectBreakdownOf(buildProjectMap(sorted, <<>>)),
         topPrompts |-> Take(SortDesc(prompts, "totalTokens"), 20),
         totals |-> grandTotalsOf(sorted, dailyUsage),
         insights |-> generateInsights(sorted, SortDesc(prompts, "totalTokens"),
                                       grandTotalsOf(sorted, dailyUsage), ctx),
         billingContext |-> ctx,
         isEquivalentCost |-> isSubscription(ctx)]

---------------------------------------------------------------------------
(* The state of a component before it has run                              *)

ReconIdle ==
    /\ entries = <<>>
    /\ queries = <<>>
    /\ pendingUserMessage = None
    /\ cumulativeCost = 0
    /\ extractThrew = FALSE

PriceIdle ==
    /\ priceModel = <<>>
    /\ priceUsage = <<>>
    /\ priceResult = <<>>

InsightIdle ==
    /\ insightSessions = <<>>
    /\ insightAdded = 0
    /\ insights = <<>>
    /\ insightArgs = <<>>

ServerIdle ==
    /\ cachedData = None
    /\ cachedRun = 0
    /\ requests = <<>>
    /\ clock = 0

PipeIdle ==
    /\ pipePc = "idle"
    /\ dirIdx = 0
    /\ filesRead = 0
    /\ sessionFirstPrompt = <<>>
    /\ sessions = <<>>
    /\ dailyMap = <<>>
    /\ modelMap = <<>>
    /\ allPrompts = <<>>
    /\ dashboard = None

---------------------------------------------------------------------------
(* Specification SpecReconstruct: extractSessionData over one file, one    *)
(* loop iteration per step, the entry of each iteration drawn from a pool  *)

MaxEntries == 5

T1 == <<"D", "1", "T", "0", "9">>
T2 == <<"D", "1", "T", "1", "0">>

S_fixBug == <<"f", "i", "x", " ", "b", "u", "g">>
S_nowAddTests == <<"n", "o", "w", " ", "a", "d", "d", " ", "t", "e", "s", "t", "s">>
S_sonnetId == <<"c", "l", "a", "u", "d", "e", "-", "s", "o", "n", "n", "e", "t", "-", "4">>
S_opusId == <<"C", "l", "a", "u", "d", "e", "-", "O", "p", "u", "s">>

UserMsg(content) == Some(Message(Some("user"), content, None, None))

U_fix == Entry("user", FALSE, Some(T1), UserMsg(StringContent(S_fixBug)))
U_tests ==
    Entry("user", FALSE, Some(T2),
          UserMsg(BlockContent(<<ToolResultBlock, TextBlock(S_nowAddTests \o <<"\n">>)>>)))
U_empty == Entry("user", FALSE, Some(T2), UserMsg(BlockContent(<<ToolResultBlock>>)))
U_meta == Entry("user", TRUE, Some(T1), UserMsg(StringContent(<<"m", "e", "t", "a">>)))
U_cmd ==
    Entry("user", FALSE, Some(T1),
          UserMsg(StringContent(S_localCommand \o <<"-", "s", "t", "d", "o", "u", "t", ">">>)))
U_cmdBlocks ==
    Entry("user", FALSE, Some(T1),
          UserMsg(BlockContent(<<TextBlock(S_commandName \o <<">", "/", "c", "l", "e", "a", "r">>)>>)))
U_noContent == Entry("user", FALSE, Some(T1), UserMsg(NoContent))

\* usage X of the cost-calculator scenario, on a sonnet model
A_X ==
    Entry("assistant", FALSE, Some(T2),
          Some(Message(Some("assistant"), StringContent(<<"o", "k">>),
                       Some(Usage(Some(1000), Some(500), Some(2000), Some(100000))),
                       Some(S_sonnetId))))
\* no timestamp, partial usage, a tool call, an opus model
A_Y ==
    Entry("assistant", FALSE, None,
          Some(Message(Some("assistant"), BlockContent(<<ToolUseBlock("Bash")>>),
                       Some(Usage(Some(10), Some(20), None, None)),
                       Some(S_opusId))))
A_synthetic ==
    Entry("assistant", FALSE, Some(T2),
          Some(Message(Some("assistant"), StringContent(<<>>),
                       Some(Usage(Some(7), Some(7), None, None)),
                       Some(S_synthetic))))
A_noUsage ==
    Entry("assistant", FALSE, Some(T2),
          Some(Message(Some("assistant"), StringContent(<<>>), None, Some(S_sonnetId))))

UserPool == {U_fix, U_tests, U_empty, U_meta, U_cmd, U_cmdBlocks, U_noContent}
AssistantPool == {A_X, A_Y, A_synthetic}
OtherPool == {JsonNull}

ReconInit ==
    /\ entries = <<>>
    /\ queries = ExtractInit.queries
    /\ pendingUserMessage = ExtractInit.pending
    /\ cumulativeCost = ExtractInit.cumulativeCost
    /\ extractThrew = FALSE
    /\ billingContext = "api"
    /\ envBilling = None
    /\ envApiKey = None
    /\ credentials = CredMissing
    /\ cliPc = "detected"
    /\ PipeIdle
    /\ ServerIdle
    /\ PriceIdle
    /\ InsightIdle

\* the loop body applied to the next entry of the file
ProcessEntry(entry) ==
    /\ ~extractThrew
    /\ Len(entries) < MaxEntries
    /\ LET st == [queries |-> queries, pending |-> pendingUserMessage,
                  cumulativeCost |-> cumulativeCost, threw |-> FALSE]
           nx == ExtractStep(st, entry, billingContext)
       IN  /\ entries' = Append(entries, entry)
           /\ queries' = nx.queries
           /\ pendingUserMessage' = nx.pending
           /\ cumulativeCost' = nx.cumulativeCost
           /\ extractThrew' = nx.threw
    /\ UNCHANGED <<priceVars, insightVars, billingContext, envVars, cliPc, pipeVars, srvVars>>

ProcessUserEvent == \E e \in UserPool : ProcessEntry(e)
ProcessAssistantEvent == \E e \in AssistantPool : ProcessEntry(e)
ProcessOtherEntry == \E e \in OtherPool : ProcessEntry(e)

ReconNext == ProcessUserEvent \/ ProcessAssistantEvent \/ ProcessOtherEntry

SpecReconstruct == ReconInit /\ [][ReconNext]_vars

---------------------------------------------------------------------------
(* Properties of the reconstruction (SpecReconstruct)                      *)

\* a user event that anchors a Query: type user, role user, not meta, not a
\* control directive (string content beginning with a reserved marker)
QualifyingUserEvent(e) ==
    /\ e.json = "object"
    /\ e.type = "user"
    /\ e.message # None
    /\ e.message[1].role = Some("user")
    /\ ~e.isMeta
    /\ ~(/\ e.message[1].content.kind = "string"
         /\ \E marker \in {S_localCommand, S_commandName} :
                StartsWith(e.message[1].content.str, marker))

\* an assistant event that emits a Query
EmittingEvent(e) ==
    /\ e.json = "object"
    /\ e.type = "assistant"
    /\ e.message # None
    /\ e.message[1].usage # None
    /\ e.message[1].model # Some(S_synthetic)

\* the positions in the file of the events that emit a Query, in file order
EmitPositions(es) ==
    SelectSeq([i \in 1..Len(es) |-> i], LAMBDA i : EmittingEvent(es[i]))

\* the prompt text a Query emitted at position i must carry
ExpectedPrompt(es, i) ==
    LET before == {j \in 1..(i - 1) : QualifyingUserEvent(es[j])}
    IN  IF before = {} THEN None
        ELSE LET last == CHOOSE j \in before : \A k \in before : k <= j
                 text == textContentOf(es[last].message[1].content)
             IN  IF text = <<>> THEN None ELSE Some(text)

\* C1: every emitted Query carries the text of the most recent qualifying user
\* event that precedes it in the file (overwrite of an unconsumed prompt, no
\* clearing on consumption), and null when there is none or it has no text.
C1_PromptOfMostRecentUserEvent ==
    LET pos == EmitPositions(entries)
    IN  /\ Len(queries) = Len(pos)
        /\ \A k \in 1..Len(pos) :
               queries[k].userPrompt = ExpectedPrompt(entries, pos[k])

\* Scenario C: [user("fix bug"), X, Y, user("now add tests"), Z] has been
\* processed and the three Queries carry "fix bug", "fix bug", "now add tests"
C1_Witness ==
    /\ entries = <<U_fix, A_X, A_Y, U_tests, A_X>>
    /\ [k \in 1..Len(queries) |-> queries[k].userPrompt]
           = <<Some(S_fixBug), Some(S_fixBug), Some(S_nowAddTests)>>

\* the sum of costUSD over the first k Queries
CostPrefix(qs, k) == SeqSum([j \in 1..k |-> qs[j].costUSD])

\* C2: each Query's cumulativeCost is the sum of costUSD of the Queries of the
\* file up to and including itself; it never decreases along the file, and
\* after the last Query the running total is the sum of all Query costs.
C2_CumulativeCostIsRunningSum ==
    /\ \A k \in 1..Len(queries) :
           queries[k].cumulativeCost = CostPrefix(queries, k)
    /\ \A k \in 1..(Len(queries) - 1) :
           queries[k].cumulativeCost <= queries[k + 1].cumulativeCost
    /\ cumulativeCost = CostPrefix(queries, Len(queries))

\* Scenario C: after the third Query the running total is cost(X)+cost(Y)+cost(Z)
\* (X = Z = 0.048 USD, Y = 0.00165 USD)
C2_Witness ==
    /\ entries = <<U_fix, A_X, A_Y, U_tests, A_X>>
    /\ Len(queries) = 3
    /\ queries[1].costUSD = 4800000
    /\ queries[2].costUSD = 165000
    /\ queries[3].cumulativeCost = 4800000 + 165000 + 4800000

---------------------------------------------------------------------------
(* Specification SpecBilling: the CLI's --billing flag and the resolver    *)

S_tier5x == <<"d", "e", "f", "a", "u", "l", "t", "_", "c", "l", "a", "u", "d", "e", "_",
              "m", "a", "x", "_", "5", "x">>
S_tier20x == <<"d", "e", "f", "a", "u", "l", "t", "_", "c", "l", "a", "u", "d", "e", "_",
               "m", "a", "x", "_", "2", "0", "x">>
S_tierPro == <<"c", "l", "a", "u", "d", "e", "_", "p", "r", "o">>
S_tierOther == <<"d", "e", "f", "a", "u", "l", "t">>

SubPool == {None, Some("pro"), Some("max"), Some("free")}
TierPool == {TierAbsent, TierNumber, TierString(S_tier5x), TierString(S_tier20x),
             TierString(S_tierPro), TierString(S_tierOther),
             TierArray(<<S_pro>>), TierArray(<<S_tierOther>>)}
CredPool ==
    {CredMissing, CredUnreadable, CredMalformed, CredJsonNull, CredJson(None)}
    \cup {CredJson(Some(OAuth(s, tr))) : s \in SubPool, tr \in TierPool}

OverridePool == {None, Some(""), Some("bogus")} \cup {Some(c) : c \in BillingContexts}
ApiKeyPool == {None, Some(""), Some("sk-ant-api03")}
FlagPool == BillingContexts \cup {"bogus", ""}

BillingInit ==
    /\ ReconIdle
    /\ billingContext = "unset"
    /\ envBilling \in OverridePool
    /\ envApiKey \in ApiKeyPool
    /\ credentials \in CredPool
    /\ cliPc = "start"
    /\ PipeIdle
    /\ ServerIdle
    /\ PriceIdle
    /\ InsightIdle

\* index.ts: no --billing argument, the environment is left as it is
StartWithoutFlag ==
    /\ cliPc = "start"
    /\ cliPc' = "parsed"
    /\ UNCHANGED <<priceVars, insightVars, srvVars, reconVars, billingContext, envVars, pipeVars>>

\* index.ts: --billing <value> with a valid value sets CLAUDE_SPEND_BILLING
StartWithBillingFlag ==
    /\ cliPc = "start"
    /\ \E v \in FlagPool :
           /\ v # "" /\ v \in BillingContexts
           /\ envBilling' = Some(v)
    /\ cliPc' = "parsed"
    /\ UNCHANGED <<priceVars, insightVars, srvVars, reconVars, billingContext, envApiKey, credentials, pipeVars>>

\* index.ts: --billing with a missing or invalid value: process.exit(1)
RejectBillingFlag ==
    /\ cliPc = "start"
    /\ \E v \in FlagPool : v = "" \/ v \notin BillingContexts
    /\ cliPc' = "exited"
    /\ UNCHANGED <<priceVars, insightVars, srvVars, reconVars, billingContext, envVars, pipeVars>>

\* parseAllSessions: const billingContext = detectBillingContext()
DetectBillingContext ==
    /\ cliPc = "parsed"
    /\ billingContext' = detectBillingContext(envBilling, envApiKey, credentials)
    /\ cliPc' = "detected"
    /\ UNCHANGED <<priceVars, insightVars, srvVars, reconVars, envVars, pipeVars>>

BillingNext ==
    StartWithoutFlag \/ StartWithBillingFlag \/ RejectBillingFlag \/ DetectBillingContext

SpecBilling == BillingInit /\ [][BillingNext]_vars

\* a usable override / a present API key, as the environment holds them
OverrideGiven == envBilling # None /\ envBilling[1] \in BillingContexts
ApiKeyPresent == envApiKey # None /\ envApiKey[1] # ""

\* the credential record holds an oauth object with at least one marker
HasMarkers ==
    /\ credentials.file = "json"
    /\ credentials.value = "object"
    /\ credentials.claudeAiOauth # None
    /\ LET o == credentials.claudeAiOauth[1]
       IN  o.subscriptionType # None \/ o.rateLimitTier.kind # "undefined"

\* C9: the resolver's priority order: a valid override wins over everything;
\* else a present API key gives api whatever the credential record holds;
\* else only the credential record's markers can select a subscription tier;
\* else the result is api.
C9_ResolverPriority ==
    cliPc = "detected" =>
        /\ OverrideGiven => billingContext = envBilling[1]
        /\ (~OverrideGiven /\ ApiKeyPresent) => billingContext = "api"
        /\ (~OverrideGiven /\ ~ApiKeyPresent /\ ~HasMarkers) => billingContext = "api"
        /\ (~OverrideGiven /\ ~ApiKeyPresent) =>
               billingContext = ContextFromCredentials(credentials)
        /\ billingContext \in BillingContexts

\* an override of pro is returned although an API key is present and the
\* credential record is a Max record
C9_Witness ==
    /\ cliPc = "detected"
    /\ envBilling = Some("pro")
    /\ ApiKeyPresent
    /\ credentials = CredJson(Some(OAuth(Some("max"), TierString(S_tier20x))))
    /\ billingContext = "pro"

\* C10: with no override and no API key, a Max 5x record resolves to max_5x,
\* a Max 20x record to max_20x and a Pro record to pro.
C10_MarkersMapToTier ==
    (cliPc = "detected" /\ ~OverrideGiven /\ ~ApiKeyPresent) =>
        /\ credentials = CredJson(Some(OAuth(Some("max"), TierString(S_tier5x))))
               => billingContext = "max_5x"
        /\ credentials = CredJson(Some(OAuth(Some("max"), TierString(S_tier20x))))
               => billingContext = "max_20x"
        /\ credentials = CredJson(Some(OAuth(Some("pro"), TierAbsent)))
               => billingContext = "pro"

\* the subscription markers a credential record can carry: subscriptionType
\* 'max' or 'pro', or a rateLimitTier string that contains a tier name
UsableMarkers(oauth) ==
    \/ oauth.subscriptionType \in {Some("max"), Some("pro")}
    \/ /\ oauth.rateLimitTier.kind = "string"
       /\ \E m \in {S_max20x, S_max5x, S_pro} : Includes(oauth.rateLimitTier.str, m)

\* the record is missing, unreadable, not JSON, or JSON without usable markers
NoUsableRecord ==
    \/ credentials.file # "json"
    \/ credentials.value = "null"
    \/ credentials.claudeAiOauth = None
    \/ ~UsableMarkers(credentials.claudeAiOauth[1])

\* C11: with no override and no API key, the resolver returns api, without
\* raising, whenever the credential record is missing, unreadable, not valid
\* JSON, or valid JSON lacking usable subscription markers (no claudeAiOauth
\* object, markers of the wrong type or of unknown value).
C11_UnusableRecordGivesApi ==
    (cliPc = "detected" /\ ~OverrideGiven /\ ~ApiKeyPresent /\ NoUsableRecord)
        => billingContext = "api"

---------------------------------------------------------------------------
(* Specification SpecPipeline: parseAllSessions over a snapshot of         *)
(* ~/.claude, one file per step, the file's content drawn from a pool      *)

MaxFiles == 2

T3 == <<"D", "2", "T", "0", "8">>

\* model id missing, no timestamp
A_Z ==
    Entry("assistant", FALSE, None,
          Some(Message(Some("assistant"), StringContent(<<>>),
                       Some(Usage(Some(100), Some(50), None, Some(400))),
                       None)))
\* a haiku turn on another day
A_W ==
    Entry("assistant", FALSE, Some(T3),
          Some(Message(Some("assistant"), StringContent(<<>>),
                       Some(Usage(Some(30), Some(40), None, None)),
                       Some(<<"h", "a", "i", "k", "u">>))))

\* a turn whose usage counts no tokens
A_Zero ==
    Entry("assistant", FALSE, Some(T2),
          Some(Message(Some("assistant"), StringContent(<<>>),
                       Some(Usage(Some(0), Some(0), None, None)),
                       Some(S_sonnetId))))

ProjectDirs == <<"p1", "p2">>
SessionIds == <<"s1", "s2", "s3", "s4", "s5", "s6">>

\* the session files of the snapshot: a file that cannot be read (the stream
\* raises), or the lines of the file
UnreadableFile == [readable |-> FALSE, lines |-> <<>>]
File(lines) == [readable |-> TRUE, lines |-> lines]

SessionFilePool ==
    {UnreadableFile,
     File(<<BlankLine, MalformedLine>>),
     File(<<JsonLine(U_fix), MalformedLine, JsonLine(U_tests)>>),
     File(<<JsonLine(U_fix), JsonLine(A_X)>>),
     File(<<JsonLine(A_X), BlankLine, JsonLine(A_Z)>>),
     File(<<JsonLine(A_Z), JsonLine(U_fix), JsonLine(A_W)>>),
     File(<<MalformedLine, JsonLine(A_W)>>),
     File(<<JsonLine(A_X), JsonLine(JsonNull)>>),
     File(<<JsonLine(U_noContent), JsonLine(A_X)>>),
     File(<<JsonLine(U_tests), JsonLine(A_Zero), JsonLine(U_fix), JsonLine(A_X),
            JsonLine(U_empty), JsonLine(A_Y), JsonLine(U_fix), JsonLine(A_W),
            JsonLine(U_tests), JsonLine(A_X)>>)}

\* the subagents directory of a session: absent, or its files in order
SubagentPool ==
    {None,
     Some(<< <<JsonLine(A_Y)>> >>),
     Some(<< <<JsonLine(U_fix), JsonLine(A_X)>>, <<MalformedLine, JsonLine(A_Y)>> >>),
     Some(<< <<JsonLine(JsonNull)>>, <<JsonLine(A_X)>> >>)}

HistoryEntry(sessionId, display) ==
    [json |-> "object", sessionId |-> sessionId, display |-> display]

\* history.jsonl: absent, or its lines
HistoryPool ==
    {None,
     Some(<<MalformedLine,
            JsonLine(HistoryEntry(Some("s1"), Some(<<"/", "c", "l", "e", "a", "r">>))),
            JsonLine(HistoryEntry(Some("s1"), Some(<<" ", "h", "i", " ">>))),
            JsonLine(HistoryEntry(None, Some(S_fixBug)))>>),
     Some(<<JsonLine(JsonNull)>>)}

\* the loop that builds sessionFirstPrompt; "threw" when an entry is null
RECURSIVE HistoryLoop(_, _)
HistoryLoop(es, m) ==
    IF es = <<>> THEN [threw |-> FALSE, map |-> m]
    ELSE LET e == Head(es)
         IN  IF e.json = "null" THEN [threw |-> TRUE, map |-> m]
             ELSE IF /\ e.sessionId # None
                     /\ Truthy(e.display)
                     /\ ~\E i \in 1..Len(m) :
                            m[i].sessionId = e.sessionId[1] /\ m[i].display # <<>>
                  THEN LET display == Trim(e.display[1])
                       IN  IF StartsWith(display, <<"/">>) /\ Len(display) < 30
                           THEN HistoryLoop(Tail(es), m)
                           ELSE HistoryLoop(Tail(es),
                                    SelectSeq(m, LAMBDA r : r.sessionId # e.sessionId[1])
                                    \o <<[sessionId |-> e.sessionId[1], display |-> display]>>)
                  ELSE HistoryLoop(Tail(es), m)

PipelineInit ==
    /\ ReconIdle
    /\ billingContext = "unset"
    /\ envBilling \in {None, Some("max_5x")}
    /\ envApiKey = None
    /\ credentials = CredMissing
    /\ cliPc = "parsed"
    /\ PipeIdle
    /\ ServerIdle
    /\ PriceIdle
    /\ InsightIdle

\* parseAllSessions up to the existsSync(projectsDir) test
StartPipeline ==
    /\ pipePc = "idle"
    /\ LET ctx == detectBillingContext(envBilling, envApiKey, credentials)
       IN  /\ billingContext' = ctx
           /\ \E projectsDirExists \in BOOLEAN :
                  IF projectsDirExists
                  THEN pipePc' = "history" /\ dashboard' = None
                  ELSE pipePc' = "done" /\ dashboard' = Some(emptyResult(ctx))
    /\ cliPc' = "detected"
    /\ UNCHANGED <<priceVars, insightVars, srvVars, reconVars, envVars, dirIdx, filesRead, sessionFirstPrompt,
                   sessions, dailyMap, modelMap, allPrompts>>

\* history.jsonl is decoded and sessionFirstPrompt built; readdirSync(projectsDir)
ReadHistory ==
    /\ pipePc = "history"
    /\ \E h \in HistoryPool :
           LET r == HistoryLoop(IF h = None THEN <<>> ELSE parseJSONLFile(h[1]), <<>>)
           IN  IF r.threw
               THEN pipePc' = "threw" /\ UNCHANGED <<sessionFirstPrompt, dirIdx>>
               ELSE /\ pipePc' = "files"
                    /\ sessionFirstPrompt' = r.map
                    /\ dirIdx' = 1
    /\ UNCHANGED <<priceVars, insightVars, srvVars, reconVars, billingContext, envVars, cliPc, filesRead, sessions,
                   dailyMap, modelMap, allPrompts, dashboard>>

\* the outer loop moves on to the next project directory
NextProjectDir ==
    /\ pipePc = "files"
    /\ dirIdx < Len(ProjectDirs)
    /\ dirIdx' = dirIdx + 1
    /\ UNCHANGED <<priceVars, insightVars, srvVars, reconVars, billingContext, envVars, cliPc, pipePc, filesRead,
                   sessionFirstPrompt, sessions, dailyMap, modelMap, allPrompts, dashboard>>

\* parseJSONLFile and extractSessionData on each session file of the pool, and
\* parseSubagentSessions on each subagents directory, per billing context
ParsedFiles ==
    [ctx \in BillingContexts |->
        [file \in SessionFilePool |->
            LET es == parseJSONLFile(file.lines)
            IN  [es |-> es, run |-> extractSessionData(es, ctx)]]]

ParsedSubagents ==
    [ctx \in BillingContexts |->
        [subagents \in SubagentPool |-> parseSubagentSessions(subagents, ctx)]]

\* one iteration of the inner loop: one session file with its subagents
ProcessSessionFile ==
    /\ pipePc = "files"
    /\ filesRead < MaxFiles
    /\ filesRead' = filesRead + 1
    /\ \E file \in SessionFilePool, subagents \in SubagentPool :
           LET sessionId == SessionIds[filesRead + 1]
               es == ParsedFiles[billingContext][file].es
               r == ParsedFiles[billingContext][file].run
               sub == ParsedSubagents[billingContext][subagents]
               s == BuildSession(ProjectDirs[dirIdx], sessionId, es, r.queries, sub,
                                 sessionFirstPrompt)
           IN  IF ~file.readable \/ es = <<>>
               THEN UNCHANGED <<pipePc, sessions, dailyMap, modelMap, allPrompts>>
               ELSE IF r.threw
               THEN /\ pipePc' = "threw"
                    /\ UNCHANGED <<sessions, dailyMap, modelMap, allPrompts>>
               ELSE IF r.queries = <<>>
               THEN UNCHANGED <<pipePc, sessions, dailyMap, modelMap, allPrompts>>
               ELSE /\ sessions' = Append(sessions, s)
                    /\ dailyMap' = addToDailyMap(dailyMap, s)
                    /\ modelMap' = addToModelMap(modelMap, r.queries)
                    /\ allPrompts' = sessionPrompts(r.queries, allPrompts, s.date,
                                                    sessionId, s.model)
                    /\ UNCHANGED pipePc
    /\ UNCHANGED <<priceVars, insightVars, srvVars, reconVars, billingContext, envVars, cliPc, dirIdx,
                   sessionFirstPrompt, dashboard>>

\* the loops have ended: sort, per-project aggregation, grand totals, return
FinishPipeline ==
    /\ pipePc = "files"
    /\ dirIdx = Len(ProjectDirs)
    /\ pipePc' = "done"
    /\ dashboard' = Some(dashboardOf(sessions, dailyMap, modelMap, allPrompts,
                                     billingContext))
    /\ UNCHANGED <<priceVars, insightVars, srvVars, reconVars, billingContext, envVars, cliPc, dirIdx, filesRead,
                   sessionFirstPrompt, sessions, dailyMap, modelMap, allPrompts>>

PipelineNext ==
    StartPipeline \/ ReadHistory \/ NextProjectDir \/ ProcessSessionFile \/ FinishPipeline

SpecPipeline == PipelineInit /\ [][PipelineNext]_vars

---------------------------------------------------------------------------
(* Properties of the batch (SpecPipeline)                                  *)

\* C3: decoding never fails the batch: whatever a line of the history file,
\* a session file or a subagent file holds, parseAllSessions completes with a
\* result instead of raising.
C3_DecodingNeverFailsTheBatch == pipePc # "threw"

\* the sessions built so far and, once returned, those of the result
AllSessions ==
    {sessions[i] : i \in 1..Len(sessions)}
    \cup (IF dashboard = None THEN {}
          ELSE {dashboard[1].sessions[i] : i \in 1..Len(dashboard[1].sessions)})

\* the total of costUSD over a list of Queries
RECURSIVE CostOf(_)
CostOf(qs) == IF qs = <<>> THEN 0 ELSE CostOf(SubSeq(qs, 1, Len(qs) - 1)) + qs[Len(qs)].costUSD

\* C4: a Session's costUSD is the sum of its own Queries' costs plus the sum of
\* its subagent Queries' costs, and subagentCost is the second sum alone.
C4_SessionCostIsOwnPlusSubagent ==
    \A s \in AllSessions :
        /\ s.costUSD = CostOf(s.queries) + CostOf(s.subagentQueries)
        /\ s.subagentCost = CostOf(s.subagentQueries)

\* a returned Session with own cost and subagent cost, both non-zero
C4_Witness ==
    /\ pipePc = "done"
    /\ \E i \in 1..Len(dashboard[1].sessions) :
           LET s == dashboard[1].sessions[i]
           IN  /\ Len(s.subagentQueries) = 2
               /\ s.subagentCost > 0
               /\ s.costUSD > s.subagentCost

\* the index of the last Query that has a timestamp (0 when none has)
LastTimestamped(qs) ==
    LET have == {k \in 1..Len(qs) : Truthy(qs[k].assistantTimestamp)}
    IN  IF have = {} THEN 0 ELSE CHOOSE k \in have : \A j \in have : j <= k

RECURSIVE OwnQueries(_)
OwnQueries(ss) == IF ss = <<>> THEN <<>> ELSE Head(ss).queries \o OwnQueries(Tail(ss))

\* the total of a field over a list of records
RECURSIVE Total(_, _)
Total(rs, field) ==
    IF rs = <<>> THEN 0 ELSE Total(SubSeq(rs, 1, Len(rs) - 1), field) + rs[Len(rs)][field]

\* C6, as stated: the ModelAggregate entries sum to the grand totals.
C6_ModelSumsEqualGrandTotals ==
    pipePc = "done" =>
        LET d == dashboard[1]
        IN  /\ Total(d.modelBreakdown, "inputTokens") = d.totals.totalInputTokens
            /\ Total(d.modelBreakdown, "outputTokens") = d.totals.totalOutputTokens
            /\ Total(d.modelBreakdown, "totalTokens") = d.totals.totalTokens
            /\ Total(d.modelBreakdown, "costUSD") = d.totals.totalCostUSD
            /\ Total(d.modelBreakdown, "queryCount") = d.totals.totalQueries

\* C6, amended: the ModelAggregate entries sum to the totals of the sessions'
\* own Queries that have a model id; the grand totals exceed those sums by the
\* share of the Queries whose model id is missing ('unknown') and, for costUSD,
\* by the sessions' subagent cost as well.
C6_ModelSumsEqualKnownOwnQueries ==
    pipePc = "done" =>
        LET d == dashboard[1]
            own == OwnQueries(d.sessions)
            known == SelectSeq(own, LAMBDA q : q.model # S_unknown)
            unknown == SelectSeq(own, LAMBDA q : q.model = S_unknown)
        IN  /\ Total(d.modelBreakdown, "inputTokens") = Total(known, "inputTokens")
            /\ Total(d.modelBreakdown, "outputTokens") = Total(known, "outputTokens")
            /\ Total(d.modelBreakdown, "totalTokens") = Total(known, "totalTokens")
            /\ Total(d.modelBreakdown, "costUSD") = Total(known, "costUSD")
            /\ Total(d.modelBreakdown, "queryCount") = Len(known)
            /\ d.totals.totalInputTokens
                   = Total(d.modelBreakdown, "inputTokens") + Total(unknown, "inputTokens")
            /\ d.totals.totalOutputTokens
                   = Total(d.modelBreakdown, "outputTokens") + Total(unknown, "outputTokens")
            /\ d.totals.totalTokens
                   = Total(d.modelBreakdown, "totalTokens") + Total(unknown, "totalTokens")
            /\ d.totals.totalQueries = Total(d.modelBreakdown, "queryCount") + Len(unknown)
            /\ d.totals.totalCostUSD
                   = Total(d.modelBreakdown, "costUSD") + Total(unknown, "costUSD")
                     + Total(d.sessions, "subagentCost")

\* a result with two ModelAggregate entries, a Query without model id and a
\* session with subagent cost
C6_Witness ==
    /\ pipePc = "done"
    /\ Len(dashboard[1].modelBreakdown) = 2
    /\ \E i \in 1..Len(dashboard[1].sessions) :
           \E k \in 1..Len(dashboard[1].sessions[i].queries) :
               dashboard[1].sessions[i].queries[k].model = S_unknown
    /\ Total(dashboard[1].sessions, "subagentCost") > 0

\* C7: the ProjectAggregate entries sum to the grand totals, field by field.
C7_ProjectSumsEqualGrandTotals ==
    pipePc = "done" =>
        LET d == dashboard[1]
        IN  /\ Total(d.projectBreakdown, "inputTokens") = d.totals.totalInputTokens
            /\ Total(d.projectBreakdown, "outputTokens") = d.totals.totalOutputTokens
            /\ Total(d.projectBreakdown, "totalTokens") = d.totals.totalTokens
            /\ Total(d.projectBreakdown, "costUSD") = d.totals.totalCostUSD
            /\ Total(d.projectBreakdown, "sessionCount") = d.totals.totalSessions
            /\ Total(d.projectBreakdown, "queryCount") = d.totals.totalQueries

\* a result with two projects, one of them holding a session with subagent
\* cost and Queries of two kinds
C7_Witness ==
    /\ pipePc = "done"
    /\ Len(dashboard[1].projectBreakdown) = 2
    /\ dashboard[1].totals.totalSessions = 2
    /\ dashboard[1].totals.totalQueries = 4
    /\ Total(dashboard[1].sessions, "subagentCost") > 0

---------------------------------------------------------------------------
(* The server (SpecServer): three handlers over a late-initialised cache   *)
(* A handler runs without interruption up to its await of parseAllSessions *)
(* and again from the resolution of that call to its response; the runs of *)
(* concurrent requests settle in any order.                                *)

MaxRequests == 3

\* the outcomes of one parseAllSessions run: it rejects, or it resolves with
\* the DashboardData of the disk as the run found it
RunRejected == [ok |-> FALSE, data |-> None]
RunResolved(d) == [ok |-> TRUE, data |-> Some(d)]

ResultWith(sessionId, ctx) ==
    LET es == <<U_fix, A_X>>
        qs == extractSessionData(es, ctx).queries
        s == BuildSession(ProjectDirs[1], sessionId, es, qs, <<>>, <<>>)
    IN  dashboardOf(<<s>>, addToDailyMap(<<>>, s), addToModelMap(<<>>, qs),
                    sessionPrompts(qs, <<>>, s.date, sessionId, s.model), ctx)

RunOutcomes ==
    {RunRejected, RunResolved(ResultWith("s1", "api")),
     RunResolved(ResultWith("s2", "max_5x"))}

\* req.params.id of GET /api/session/:id
ParamPool == {"s2", "s9"}

NoParam == "-"

\* a request being handled: its route, the tick it arrived at, the tick its
\* parseAllSessions run began at (0: none), and, once answered, the tick of
\* the response, its status, its body and the run that produced the data sent
Request(route, id, now, runAt) ==
    [route |-> route, id |-> id, startedAt |-> now, runStartedAt |-> runAt,
     pc |-> "awaiting", completedAt |-> 0, status |-> 0, body |-> None,
     servedRun |-> 0]

Respond(req, now, status, body, run) ==
    [req EXCEPT !.pc = "responded", !.completedAt = now, !.status = status,
                !.body = body, !.servedRun = run]

\* cachedData.sessions.find(s => s.sessionId === req.params.id)
findSession(data, id) ==
    LET hit == {i \in 1..Len(data.sessions) : data.sessions[i].sessionId = id}
    IN  IF hit = {} THEN None
        ELSE Some(data.sessions[CHOOSE i \in hit : \A j \in hit : i <= j])

\* the response of /api/data from the cache
dataResponse(req, now, data, run) ==
    Respond(req, now, 200, Some(data), run)

\* the response of /api/refresh
refreshResponse(req, now, data, run) ==
    Respond(req, now, 200, Some([ok |-> TRUE, sessions |-> Len(data.sessions)]), run)

\* res.status(500).json({ error })
errorResponse(req, now) == Respond(req, now, 500, None, 0)

\* faulty variant: an unknown id is answered like a pipeline failure
sessionResponse_NotFoundAsError(req, now, data, run) ==
    LET session == findSession(data, req.id)
    IN  IF session = None
        THEN errorResponse(req, now)
        ELSE Respond(req, now, 200,
                     Some([session |-> session[1],
                           billingContext |-> data.billingContext,
                           isEquivalentCost |-> data.isEquivalentCost]), run)

\* the response of /api/session/:id from the cache
sessionResponse(req, now, data, run) ==
    LET session == findSession(data, req.id)
    IN  IF session = None
        THEN Respond(req, now, 404, None, run)
        ELSE Respond(req, now, 200,
                     Some([session |-> session[1],
                           billingContext |-> data.billingContext,
                           isEquivalentCost |-> data.isEquivalentCost]), run)

ServerInit ==
    /\ ReconIdle
    /\ billingContext = "unset"
    /\ envBilling = None
    /\ envApiKey = None
    /\ credentials = CredMissing
    /\ cliPc = "start"
    /\ PipeIdle
    /\ ServerIdle
    /\ PriceIdle
    /\ InsightIdle

\* GET /api/data arrives: answered from the cache, or a run begins
ReceiveData ==
    /\ Len(requests) < MaxRequests
    /\ clock' = clock + 1
    /\ LET req == Request("data", NoParam, clock', 0)
       IN  IF cachedData # None
           THEN requests' = Append(requests,
                                   dataResponse(req, clock', cachedData[1], cachedRun))
           ELSE requests' = Append(requests, [req EXCEPT !.runStartedAt = clock'])
    /\ UNCHANGED <<priceVars, insightVars, cachedData, cachedRun, reconVars, billingContext, envVars, cliPc,
                   pipeVars>>

\* GET /api/refresh arrives: a run begins, whatever the cache holds
ReceiveRefresh ==
    /\ Len(requests) < MaxRequests
    /\ clock' = clock + 1
    /\ requests' = Append(requests, Request("refresh", NoParam, clock', clock'))
    /\ UNCHANGED <<priceVars, insightVars, cachedData, cachedRun, reconVars, billingContext, envVars, cliPc,
                   pipeVars>>

\* GET /api/session/:id arrives: answered from the cache, or a run begins
ReceiveSession ==
    /\ Len(requests) < MaxRequests
    /\ clock' = clock + 1
    /\ \E id \in ParamPool :
           LET req == Request("session", id, clock', 0)
           IN  IF cachedData # None
               THEN requests' = Append(requests,
                                       sessionResponse(req, clock', cachedData[1], cachedRun))
               ELSE requests' = Append(requests, [req EXCEPT !.runStartedAt = clock'])
    /\ UNCHANGED <<priceVars, insightVars, cachedData, cachedRun, reconVars, billingContext, envVars, cliPc,
                   pipeVars>>

\* the run a handler awaits resolves: cachedData = await parseAllSessions(),
\* then the response
RunResolves ==
    /\ \E i \in 1..Len(requests), out \in RunOutcomes :
           /\ requests[i].pc = "awaiting"
           /\ out.ok
           /\ clock' = clock + 1
           /\ cachedData' = out.data
           /\ cachedRun' = requests[i].runStartedAt
           /\ LET req == requests[i]
                  answer == IF req.route = "data"
                            THEN dataResponse(req, clock', out.data[1], req.runStartedAt)
                            ELSE IF req.route = "refresh"
                            THEN refreshResponse(req, clock', out.data[1], req.runStartedAt)
                            ELSE sessionResponse(req, clock', out.data[1], req.runStartedAt)
              IN  requests' = [requests EXCEPT ![i] = answer]
    /\ UNCHANGED <<priceVars, insightVars, reconVars, billingContext, envVars, cliPc, pipeVars>>

\* faulty variant: a failed run empties the cache
RunRejects_ClearsCache ==
    /\ \E i \in 1..Len(requests), out \in RunOutcomes :
           /\ requests[i].pc = "awaiting"
           /\ ~out.ok
           /\ clock' = clock + 1
           /\ requests' = [requests EXCEPT ![i] = errorResponse(requests[i], clock')]
    /\ cachedData' = None
    /\ cachedRun' = 0
    /\ UNCHANGED <<priceVars, insightVars, reconVars, billingContext, envVars, cliPc,
                   pipeVars>>

\* the run a handler awaits rejects: the catch block answers 500
RunRejects ==
    /\ \E i \in 1..Len(requests), out \in RunOutcomes :
           /\ requests[i].pc = "awaiting"
           /\ ~out.ok
           /\ clock' = clock + 1
           /\ requests' = [requests EXCEPT ![i] = errorResponse(requests[i], clock')]
    /\ UNCHANGED <<priceVars, insightVars, cachedData, cachedRun, reconVars, billingContext, envVars, cliPc,
                   pipeVars>>

ServerNext ==
    ReceiveData \/ ReceiveRefresh \/ ReceiveSession \/ RunResolves \/ RunRejects

SpecServer == ServerInit /\ [][ServerNext]_vars

\* C8: once a refresh has completed, no read that starts after its completion
\* is served a result produced by a run that began before that refresh did,
\* whatever the interleaving of the requests.
C8_RefreshDiscardsCacheForGood ==
    \A f \in 1..Len(requests), r \in 1..Len(requests) :
        ( /\ requests[f].route = "refresh"
          /\ requests[f].pc = "responded"
          /\ requests[f].status = 200
          /\ requests[r].route \in {"data", "session"}
          /\ requests[r].pc = "responded"
          /\ requests[r].status \in {200, 404}
          /\ requests[r].startedAt > requests[f].completedAt )
        => requests[r].servedRun >= requests[f].startedAt

---------------------------------------------------------------------------
(* Specification SpecPricing: calculateCost on a model id and a token      *)
(* usage, called once under each billing context                           *)

S_haikuId == <<"c", "l", "a", "u", "d", "e", "-", "3", "-", "H", "A", "I", "K", "U">>
S_mystery == <<"m", "y", "s", "t", "e", "r", "y", "-", "m", "o", "d", "e", "l", "-", "9">>
S_opusSonnet == <<"s", "o", "n", "n", "e", "t", "-", "o", "r", "-", "O", "P", "U", "S">>
S_son == <<"s", "o", "n", "-", "n", "e", "t">>

ModelIdPool ==
    {S_sonnetId, S_opusId, S_haikuId, S_mystery, S_unknown, S_opusSonnet, S_son, <<>>}

TokenUsage(i, o, cc, cr) ==
    [inputTokens |-> i, outputTokens |-> o, cacheCreationTokens |-> cc,
     cacheReadTokens |-> cr]

UsagePool ==
    {TokenUsage(i, o, cc, cr) : i \in {0, 1000}, o \in {0, 500}, cc \in {0, 2000},
                                cr \in {0, 7, 100000}}

PricingInit ==
    /\ ReconIdle
    /\ billingContext = "unset"
    /\ envBilling = None
    /\ envApiKey = None
    /\ credentials = CredMissing
    /\ cliPc = "start"
    /\ PipeIdle
    /\ ServerIdle
    /\ InsightIdle
    /\ priceModel \in ModelIdPool
    /\ priceUsage \in UsagePool
    /\ priceResult = [c \in BillingContexts |-> None]

\* one call calculateCost(model, usage, billingContext)
CalculateCost ==
    /\ \E ctx \in BillingContexts :
           /\ priceResult[ctx] = None
           /\ priceResult' =
                  [priceResult EXCEPT ![ctx] = Some(calculateCost(priceModel, priceUsage, ctx))]
    /\ UNCHANGED <<priceModel, priceUsage, insightVars, srvVars, reconVars, billingContext,
                   envVars, cliPc, pipeVars>>

PricingNext == CalculateCost

SpecPricing == PricingInit /\ [][PricingNext]_vars

\* the family names an identifier contains, compared letter by letter
\* without regard to case
SameLetter(a, b) ==
    \/ a = b
    \/ \E k \in 1..Len(UpperCase) : {a, b} = {UpperCase[k], LowerCase[k]}

Mentions(id, name) ==
    \E i \in 0..(Len(id) - Len(name)) :
        \A k \in 1..Len(name) : SameLetter(id[i + k], name[k])

\* the family whose rates an identifier is priced at: the first of opus,
\* sonnet, haiku it mentions, sonnet when it mentions none
FamilyOf(id) ==
    IF Mentions(id, S_opus) THEN "opus"
    ELSE IF Mentions(id, S_sonnet) THEN "sonnet"
    ELSE IF Mentions(id, S_haiku) THEN "haiku"
    ELSE "sonnet"

\* the published rates, in cents per million tokens
RateTable ==
    [opus   |-> [input |-> 1500, output |-> 7500, cacheWrite |-> 1875, cacheRead |-> 150],
     sonnet |-> [input |-> 300,  output |-> 1500, cacheWrite |-> 375,  cacheRead |-> 30],
     haiku  |-> [input |-> 100,  output |-> 500,  cacheWrite |-> 125,  cacheRead |-> 10]]

Computed == {c \in BillingContexts : priceResult[c] # None}

\* C12: each component of the CostBreakdown is tokens/1e6 x the rate of the
\* model's family, totalCost is exactly the sum of the four components and
\* cacheSavings is cacheReadTokens/1e6 x inputRate - cacheReadCost; for sonnet
\* and usage {1000, 500, 2000, 100000} the values are 0.003, 0.0075, 0.0075,
\* 0.03, total 0.048 and savings 0.27 (in units of 1e-8 USD).
C12_CostBreakdownFormula ==
    \A c \in Computed :
        LET r == priceResult[c][1]
            rates == RateTable[FamilyOf(priceModel)]
            u == priceUsage
        IN  /\ r.inputCost = u.inputTokens * rates.input
            /\ r.outputCost = u.outputTokens * rates.output
            /\ r.cacheWriteCost = u.cacheCreationTokens * rates.cacheWrite
            /\ r.cacheReadCost = u.cacheReadTokens * rates.cacheRead
            /\ r.totalCost = r.inputCost + r.outputCost + r.cacheWriteCost + r.cacheReadCost
            /\ r.cacheSavings = u.cacheReadTokens * rates.input - r.cacheReadCost
            /\ (priceModel = S_sonnetId /\ u = TokenUsage(1000, 500, 2000, 100000)) =>
                   /\ r.inputCost = 300000
                   /\ r.outputCost = 750000
                   /\ r.cacheWriteCost = 750000
                   /\ r.cacheReadCost = 3000000
                   /\ r.totalCost = 4800000
                   /\ r.cacheSavings = 27000000

\* the sonnet example has been priced
C12_Witness ==
    /\ priceModel = S_sonnetId
    /\ priceUsage = TokenUsage(1000, 500, 2000, 100000)
    /\ priceResult["api"] # None
    /\ priceResult["api"][1].totalCost = 4800000
    /\ priceResult["api"][1].cacheSavings = 27000000

\* C13: every model identifier resolves to exactly one of the three rate
\* families, by case-insensitive substring match on the family name; an
\* identifier that matches none is priced at the sonnet rates, without error.
C13_FamilyByCaseInsensitiveMatch ==
    LET f == resolveModelFamily(priceModel)
        names == [opus |-> S_opus, sonnet |-> S_sonnet, haiku |-> S_haiku]
        mentioned == {n \in DOMAIN names : Mentions(priceModel, names[n])}
    IN  /\ f \in {"opus", "sonnet", "haiku"}
        /\ mentioned # {} => f \in mentioned
        /\ mentioned = {} => (f = "sonnet" /\ getRates(priceModel) = RateTable.sonnet)
        /\ \A c \in Computed :
               priceResult[c][1].inputCost = priceUsage.inputTokens * RateTable[f].input

\* "mystery-model-9" has been priced at the sonnet rates
C13_Witness ==
    /\ priceModel = S_mystery
    /\ priceUsage.inputTokens = 1000
    /\ priceResult["api"] # None
    /\ priceResult["api"][1].inputCost = 300000

SubscriptionTiers == {"pro", "max_5x", "max_20x"}

\* C14: the billing context does not alter the arithmetic: the six amounts
\* of the CostBreakdown are identical under all four contexts; isEquivalent
\* is true exactly for pro, max_5x and max_20x, and so is the isEquivalentCost
\* flag of a result with respect to its billingContext.
C14_ContextDoesNotAlterArithmetic ==
    /\ \A c1 \in Computed, c2 \in Computed :
           [priceResult[c1][1] EXCEPT !.isEquivalent = FALSE]
               = [priceResult[c2][1] EXCEPT !.isEquivalent = FALSE]
    /\ \A c \in Computed : priceResult[c][1].isEquivalent = (c \in SubscriptionTiers)
    /\ \A c \in BillingContexts :
           /\ emptyResult(c).billingContext = c
           /\ emptyResult(c).isEquivalentCost = (c \in SubscriptionTiers)
           /\ dashboardOf(<<>>, <<>>, <<>>, <<>>, c).billingContext = c
           /\ dashboardOf(<<>>, <<>>, <<>>, <<>>, c).isEquivalentCost
                  = (c \in SubscriptionTiers)

\* a usage with a non-zero cost has been priced under all four contexts
C14_Witness ==
    /\ Computed = BillingContexts
    /\ priceResult["api"][1].totalCost > 0
    /\ priceResult["pro"][1].isEquivalent
    /\ ~priceResult["api"][1].isEquivalent

---------------------------------------------------------------------------
(* Specification SpecInsights: the end of parseAllSessions (sort, grand    *)
(* totals, generateInsights) on a population of sessions, each session     *)
(* reconstructed from a journal the profile describes                      *)

MaxAdded == 1

S_haiku3 == <<"c", "l", "a", "u", "d", "e", "-", "h", "a", "i", "k", "u">>
S_opus4 == <<"c", "l", "a", "u", "d", "e", "-", "o", "p", "u", "s", "-", "4">>

Day(n) == Some(<<"D", Digits[n], "T", "0", "9">>)

\* a journal: one prompt, `prompted` turns that carry it, then a user event
\* holding only a tool result and the remaining turns; the first five turns
\* read earlyIn raw input tokens each, the last five lateIn, the others midIn
JournalOf(d) ==
    LET turn(i) ==
            Entry("assistant", FALSE, d.timestamp,
                  Some(Message(Some("assistant"), StringContent(<<>>),
                               Some(Usage(Some(IF i <= 5 THEN d.earlyIn
                                               ELSE IF i > d.turns - 5 THEN d.lateIn
                                               ELSE d.midIn),
                                          Some(d.out), None, Some(d.cacheRead))),
                               Some(d.model))))
        promptEvent == Entry("user", FALSE, d.timestamp, UserMsg(StringContent(S_fixBug)))
        toolResult == Entry("user", FALSE, d.timestamp,
                            UserMsg(BlockContent(<<ToolResultBlock>>)))
    IN  <<promptEvent>> \o [i \in 1..d.prompted |-> turn(i)]
        \o (IF d.prompted < d.turns THEN <<toolResult>> ELSE <<>>)
        \o [i \in 1..(d.turns - d.prompted) |-> turn(d.prompted + i)]

\* the subagent journal of a profile: one turn of subIn raw input tokens
SubagentJournalOf(d) ==
    IF d.subIn = 0 THEN <<>>
    ELSE <<Entry("assistant", FALSE, d.timestamp,
                 Some(Message(Some("assistant"), StringContent(<<>>),
                              Some(Usage(Some(d.subIn), None, None, None)),
                              Some(d.model))))>>

\* the Session the file loop builds from the journals of a profile
SessionOf(d) ==
    LET es == JournalOf(d)
    IN  BuildSession(d.project, d.name, es, extractSessionData(es, "api").queries,
                     extractSessionData(SubagentJournalOf(d), "api").queries, <<>>)

Profile(name, project, day, model, turns, prompted, earlyIn, midIn, lateIn, subIn) ==
    [name |-> name, project |-> project, timestamp |-> Day(day), model |-> model,
     turns |-> turns, prompted |-> prompted, earlyIn |-> earlyIn, midIn |-> midIn,
     lateIn |-> lateIn, out |-> 10, cacheRead |-> 0, subIn |-> subIn]

\* a marathon: 201 turns, 200 of them after a tool result, a heavy start, a
\* late window 2.5 times as expensive as the early one, with a subagent
Sess_M == SessionOf(Profile("M", "p1", 1, S_haiku3, 201, 1, 60000, 5000, 150000, 1000000))
\* a simple Opus conversation
Sess_O == SessionOf(Profile("O", "p2", 2, S_opus4, 5, 5, 100, 100, 100, 0))
\* a short conversation with a heavy start
Sess_F == SessionOf(Profile("F", "p2", 3, S_haiku3, 15, 15, 50001, 0, 0, 0))
\* 60 turns, early average $0.01, late average $0.05 (haiku: $1 per MTok)
Sess_E5 == SessionOf(Profile("E5", "p2", 3, S_haiku3, 60, 60, 10000 - 50, 10000, 50000 - 50, 0))
\* 60 turns, early average $0.01, late average $0.015
Sess_E15 == SessionOf(Profile("E15", "p2", 3, S_haiku3, 60, 60, 10000 - 50, 10000, 15000 - 50, 0))
\* 60 turns, early average $0.01, late average $0.02
Sess_E2 == SessionOf(Profile("E2", "p2", 3, S_haiku3, 60, 60, 10000 - 50, 10000, 20000 - 50, 0))
\* 60 turns, early average $0.00005, late average $0.00015
Sess_Tiny == SessionOf(Profile("Tiny", "p2", 3, S_haiku3, 60, 60, 0, 0, 100, 0))
\* 50 turns, early average $0.01, late average $0.05
Sess_S50 == SessionOf(Profile("S50", "p2", 3, S_haiku3, 50, 50, 10000 - 50, 10000, 50000 - 50, 0))

\* exactly 20 turns, no cache reads, $0.60
Sess_T20 == SessionOf(Profile("T20", "p2", 3, S_haiku3, 20, 20, 30000 - 50, 30000 - 50, 30000 - 50, 0))

InsightPool ==
    [M |-> Sess_M, O |-> Sess_O, F |-> Sess_F, E5 |-> Sess_E5, E15 |-> Sess_E15,
     E2 |-> Sess_E2, Tiny |-> Sess_Tiny, S50 |-> Sess_S50, T20 |-> Sess_T20]

PopulationPool ==
    {<<>>,
     <<"M", "M">>,
     <<"T20", "T20">>,
     <<"O", "O", "O", "F", "F">>,
     <<"M", "E5", "E5", "E5", "E5">>,
     <<"M", "M", "M", "O", "O", "O", "O", "O", "F", "F">>}

\* the sessions list as the file loop leaves it
RunSessionIds ==
    <<"s01", "s02", "s03", "s04", "s05", "s06", "s07", "s08", "s09", "s10", "s11",
      "s12">>

SessionsOf(names) ==
    [i \in 1..Len(names) |-> [InsightPool[names[i]] EXCEPT !.sessionId = RunSessionIds[i]]]

\* allPrompts as the file loop leaves it
RECURSIVE PromptsFrom(_, _)
PromptsFrom(ss, prompts) ==
    IF ss = <<>> THEN prompts
    ELSE IF Len(ss) = 1
    THEN sessionPrompts(ss[1].queries, prompts, ss[1].date, ss[1].sessionId, ss[1].model)
    ELSE LET half == Len(ss) \div 2
             left == PromptsFrom(SubSeq(ss, 1, half), prompts)
         IN  After(left, PromptsFrom(SubSeq(ss, half + 1, Len(ss)), left))

PromptsOf(ss) == PromptsFrom(ss, <<>>)

\* dailyMap as the file loop leaves it
RECURSIVE DailyFrom(_, _)
DailyFrom(ss, daily) ==
    IF ss = <<>> THEN daily
    ELSE IF Len(ss) = 1 THEN addToDailyMap(daily, ss[1])
    ELSE LET half == Len(ss) \div 2
             left == DailyFrom(SubSeq(ss, 1, half), daily)
         IN  After(left, DailyFrom(SubSeq(ss, half + 1, Len(ss)), left))

DailyOf(ss) == DailyFrom(ss, <<>>)

\* sessions.sort(...), grandTotals, generateInsights(sessions, allPrompts,
\* grandTotals, billingContext)
insightsOfRun(ss, ctx) ==
    LET sorted == SortDesc(ss, "totalTokens")
        totals == grandTotalsOf(sorted, SortByDate(DailyOf(ss)))
    IN  generateInsights(sorted, SortDesc(PromptsOf(ss), "totalTokens"), totals, ctx)

\* faulty variant: the turn counts are sorted on the sessions list itself
argumentsAfterInsights_SortsSessions(ss, prompts, totals) ==
    LET byTurns == SortDesc(ss, "queryCount")
    IN  [sessions |-> [i \in 1..Len(ss) |-> byTurns[Len(ss) + 1 - i]],
         allPrompts |-> prompts, totals |-> totals]

\* the arguments as generateInsights leaves them: the detectors read them with
\* filter, map, reduce and slice, and every sort is made on a list built
\* inside the call (growthData, turnCounts, days, Object.entries(projectCosts))
argumentsAfterInsights(ss, prompts, totals) ==
    [sessions |-> ss, allPrompts |-> prompts, totals |-> totals]

\* sessions, allPrompts and grandTotals of the run, after the call
argumentsOfRun(ss) ==
    LET sorted == SortDesc(ss, "totalTokens")
    IN  argumentsAfterInsights(sorted, SortDesc(PromptsOf(ss), "totalTokens"),
                               grandTotalsOf(sorted, SortByDate(DailyOf(ss))))

InsightsInit ==
    /\ ReconIdle
    /\ billingContext \in BillingContexts
    /\ envBilling = None
    /\ envApiKey = None
    /\ credentials = CredMissing
    /\ cliPc = "detected"
    /\ PipeIdle
    /\ ServerIdle
    /\ PriceIdle
    /\ insightSessions \in PopulationPool
    /\ insightAdded = 0
    /\ insights = None
    /\ insightArgs = None

\* the file loop finds one more session
AddSession ==
    /\ insights = None
    /\ insightAdded < MaxAdded
    /\ \E name \in DOMAIN InsightPool : insightSessions' = Append(insightSessions, name)
    /\ insightAdded' = insightAdded + 1
    /\ UNCHANGED <<insights, insightArgs, priceVars, srvVars, reconVars, billingContext,
                   envVars, cliPc, pipeVars>>

\* the loops have ended: the insights of the run
GenerateInsights ==
    /\ insights = None
    /\ insights' = Some(insightsOfRun(SessionsOf(insightSessions), billingContext))
    /\ insightArgs' = Some(argumentsOfRun(SessionsOf(insightSessions)))
    /\ UNCHANGED <<insightSessions, insightAdded, priceVars, srvVars, reconVars,
                   billingContext, envVars, cliPc, pipeVars>>

InsightsNext == AddSession \/ GenerateInsights

SpecInsights == InsightsInit /\ [][InsightsNext]_vars

\* the ids of the insights returned, in the order returned
InsightIds == [i \in 1..Len(insights[1]) |-> insights[1][i].id]

DisplayOrder ==
    <<"vague-prompts", "context-growth", "marathon-sessions", "input-heavy",
      "day-pattern", "model-mismatch", "tool-heavy", "project-dominance",
      "conversation-efficiency", "heavy-context", "cache-efficiency",
      "subagent-overhead", "subscription-value">>

PositionOf(id) == CHOOSE k \in 1..Len(DisplayOrder) : DisplayOrder[k] = id

\* C15: the insight list follows one fixed order: each id occurs at most once
\* and the ids present appear in the order vague-prompts, context-growth,
\* marathon-sessions, input-heavy, day-pattern, model-mismatch, tool-heavy,
\* project-dominance, conversation-efficiency, heavy-context,
\* cache-efficiency, subagent-overhead, subscription-value, whatever their
\* severity; subscription-value only under a subscription tier.
C15_InsightsInFixedOrder ==
    insights # None =>
        /\ \A i \in 1..Len(InsightIds) : \E k \in 1..Len(DisplayOrder) : DisplayOrder[k] = InsightIds[i]
        /\ \A i \in 1..Len(InsightIds), j \in 1..Len(InsightIds) :
               i < j => PositionOf(InsightIds[i]) < PositionOf(InsightIds[j])
        /\ (\E i \in 1..Len(InsightIds) : InsightIds[i] = "subscription-value")
               => billingContext \in SubscriptionTiers

\* all thirteen insights are returned, an info before a warning
C15_Witness ==
    /\ insights # None
    /\ InsightIds = DisplayOrder
    /\ insights[1][4].type = "info"
    /\ insights[1][6].type = "warning"

\* the sessions of the run
Population == SessionsOf(insightSessions)

HasContextGrowth == \E i \in 1..Len(InsightIds) : InsightIds[i] = "context-growth"

\* the cost of the first five and of the last five Queries of a session
EarlyWindowCost(s) == Total(SubSeq(s.queries, 1, 5), "costUSD")
LateWindowCost(s) == Total(SubSeq(s.queries, Len(s.queries) - 4, Len(s.queries)), "costUSD")

\* C16, as stated: context-growth is contributed exactly when some Session
\* has more than 50 turns and a late-window average cost per turn of more
\* than 2 times its early-window average.
C16_GrowthIffLateOverTwiceEarly ==
    insights # None =>
        (HasContextGrowth <=>
            \E i \in 1..Len(Population) :
                /\ Len(Population[i].queries) > 50
                /\ LateWindowCost(Population[i]) > 2 * EarlyWindowCost(Population[i]))

\* C16, amended: context-growth is contributed exactly when some Session has
\* more than 50 turns and a late-window average cost per turn of more than 2
\* times the larger of its early-window average and $0.0001; a 60-turn
\* session with averages $0.01 and $0.05 triggers it, one with ratio 1.5 or
\* exactly 2 does not.
C16_GrowthIffLateOverTwiceFlooredEarly ==
    insights # None =>
        /\ HasContextGrowth <=>
               \E i \in 1..Len(Population) :
                   /\ Len(Population[i].queries) > 50
                   /\ LateWindowCost(Population[i]) > 2 * EarlyWindowCost(Population[i])
                   /\ LateWindowCost(Population[i]) > 2 * 5 * USD_0_0001
        /\ insightSessions = <<"E5">> => HasContextGrowth
        /\ insightSessions \in {<<"E15">>, <<"E2">>} => ~HasContextGrowth

\* the run of the single 60-turn session with averages $0.01 and $0.05
C16_Witness ==
    /\ insights # None
    /\ insightSessions = <<"E5">>
    /\ EarlyWindowCost(Population[1]) = 5 * USD_0_01
    /\ LateWindowCost(Population[1]) = 25 * USD_0_01
    /\ HasContextGrowth

---------------------------------------------------------------------------
\* Properties of GET /api/session/:id (SpecServer)

\* request i is answered by this step
AnsweredNow(i) ==
    /\ requests'[i].pc = "responded"
    /\ i <= Len(requests) => requests[i].pc = "awaiting"

\* C17: GET /api/session/:id is answered 404 exactly when the handler holds a
\* pipeline result and none of its Sessions has the id; 500 is answered only
\* when the run the handler awaited failed, and then no result was stored; a
\* Session that has the id is returned with the billingContext and
\* isEquivalentCost of the result it was found in.
C17_NotFoundIsNotFailure ==
    [][\A i \in 1..Len(requests') :
          (AnsweredNow(i) /\ requests'[i].route = "session") =>
              LET r == requests'[i]
              IN  /\ r.status \in {200, 404, 500}
                  /\ r.status = 500 =>
                         /\ i <= Len(requests)
                         /\ cachedData' = cachedData
                  /\ r.status # 500 =>
                         /\ cachedData' # None
                         /\ r.status = 404 <=> findSession(cachedData'[1], r.id) = None
                         /\ r.status = 404 => r.body = None
                         /\ r.status = 200 =>
                                r.body = Some([session |-> findSession(cachedData'[1], r.id)[1],
                                               billingContext |-> cachedData'[1].billingContext,
                                               isEquivalentCost |->
                                                   cachedData'[1].isEquivalentCost])]_vars

\* one lookup failed with the pipeline, one found no session in a subscription
\* result, one was answered with the session and the flags of that result
C17_Witness ==
    /\ Len(requests) = 3
    /\ \A i \in 1..3 : requests[i].route = "session" /\ requests[i].pc = "responded"
    /\ requests[1].status = 500
    /\ requests[2].status = 404 /\ requests[2].id = "s9"
    /\ requests[3].status = 200 /\ requests[3].id = "s2"
    /\ requests[3].body[1].session.sessionId = "s2"
    /\ requests[3].body[1].billingContext = "max_5x"
    /\ requests[3].body[1].isEquivalentCost

---------------------------------------------------------------------------
\* Properties of the skipped events (SpecReconstruct)

RemoveAt(es, i) == SubSeq(es, 1, i - 1) \o SubSeq(es, i + 1, Len(es))

\* an assistant event whose model id is the synthetic marker
SyntheticEvent(e) ==
    /\ e.json = "object"
    /\ e.type = "assistant"
    /\ e.message # None
    /\ e.message[1].model = Some(S_synthetic)

NotSynthetic(e) == ~SyntheticEvent(e)

\* C18: an assistant event whose model id is '<synthetic>' emits no Query and
\* leaves the reconstruction state as it was: the Queries, the pending prompt
\* and the cumulative cost reached on a stream are those reached on the same
\* stream with the synthetic events removed.
C18_SyntheticEventsLeaveNoTrace ==
    (\E i \in 1..Len(entries) : SyntheticEvent(entries[i])) =>
        LET without == extractSessionData(SelectSeq(entries, NotSynthetic), billingContext)
        IN  /\ extractThrew = without.threw
            /\ ~extractThrew =>
                   /\ queries = without.queries
                   /\ pendingUserMessage = without.pending
                   /\ cumulativeCost = without.cumulativeCost

\* a prompt, a synthetic event, then a billable turn: one Query, with the
\* prompt and the cost of that turn alone
C18_Witness ==
    /\ entries = <<U_fix, A_synthetic, A_X>>
    /\ Len(queries) = 1
    /\ queries[1].userPrompt = Some(S_fixBug)
    /\ cumulativeCost = queries[1].costUSD
    /\ cumulativeCost > 0

\* a user event marked meta, or whose content, in either form, begins with a
\* reserved control marker
ControlOrMetaEvent(e) ==
    /\ e.json = "object"
    /\ e.type = "user"
    /\ e.message # None
    /\ e.message[1].role = Some("user")
    /\ \/ e.isMeta
       \/ /\ e.message[1].content.kind \in {"string", "blocks"}
          /\ \E marker \in {S_localCommand, S_commandName} :
                 StartsWith(textContentOf(e.message[1].content), marker)

\* C19: a user event that is marked meta, or whose content begins with
\* '<local-command' or '<command-name', as a plain string or as a list of
\* content blocks, never becomes nor replaces the pending prompt: the Queries
\* of a stream are those of the same stream with that event removed.
C19_ControlEventsNeverPending ==
    ~extractThrew =>
        \A i \in 1..Len(entries) :
            ControlOrMetaEvent(entries[i]) =>
                queries = extractSessionData(RemoveAt(entries, i), billingContext).queries

---------------------------------------------------------------------------
\* Properties of the subagent files (SpecPipeline)

\* the fields of a Session that describe its own file
OwnFields ==
    {"sessionId", "project", "date", "timestamp", "firstPrompt", "model", "queryCount",
     "queries", "inputTokens", "outputTokens", "totalTokens", "cacheEfficiency",
     "costCurve"}

RECURSIVE Concat(_)
Concat(seqs) == IF seqs = <<>> THEN <<>> ELSE Head(seqs) \o Concat(Tail(seqs))

\* the Queries of the subagent files, each file reconstructed on its own from
\* the initial state; the files after one whose reconstruction raises are
\* not read
FreshSubagentQueries(subagents, ctx) ==
    IF subagents = None THEN <<>>
    ELSE LET files == subagents[1]
             runs == [k \in 1..Len(files) |->
                         extractSessionData(parseJSONLFile(files[k]), ctx)]
             raised == {k \in 1..Len(files) : runs[k].threw}
             read == IF raised = {} THEN Len(files)
                     ELSE (CHOOSE k \in raised : \A j \in raised : k <= j) - 1
         IN  Concat([k \in 1..read |-> runs[k].queries])

\* the entries and the reconstruction of every session file of the snapshot,
\* and the subagent Queries of every subagents directory, per billing context
FileRuns ==
    [ctx \in BillingContexts |->
        [file \in SessionFilePool |->
            LET es == parseJSONLFile(file.lines)
            IN  [es |-> es, run |-> extractSessionData(es, ctx)]]]

SubagentRuns ==
    [ctx \in BillingContexts |->
        [subagents \in SubagentPool |->
            [queries |-> parseSubagentSessions(subagents, ctx),
             fresh |-> FreshSubagentQueries(subagents, ctx)]]]

\* C20: each subagent file is reconstructed with a fresh state of its own, and
\* a Session's own part (its queries with their cumulativeCost, its costCurve,
\* its token totals) is what it would be without any subagent file; the
\* subagent Queries are found in subagentQueries alone and their cost in
\* subagentCost and costUSD alone.
C20_SubagentsApartFromParent ==
    (pipePc = "files" /\ sessions # <<>>) =>
        LET s == sessions[Len(sessions)]
        IN  \A file \in SessionFilePool :
                LET es == FileRuns[billingContext][file].es
                    r == FileRuns[billingContext][file].run
                IN  (file.readable /\ ~r.threw /\ r.queries = s.queries) =>
                        \A subagents \in SubagentPool :
                            LET sub == SubagentRuns[billingContext][subagents].queries
                                alone == BuildSession(s.project, s.sessionId, es, s.queries,
                                                      <<>>, sessionFirstPrompt)
                            IN  (/\ sub = s.subagentQueries
                                 /\ s = BuildSession(s.project, s.sessionId, es, s.queries,
                                                     sub, sessionFirstPrompt)) =>
                                    /\ \A f \in OwnFields : s[f] = alone[f]
                                    /\ s.subagentQueries =
                                           SubagentRuns[billingContext][subagents].fresh
                                    /\ s.subagentCost = CostOf(s.subagentQueries)
                                    /\ s.costUSD = alone.costUSD + s.subagentCost
                                    /\ alone.subagentCost = 0
                                    /\ alone.subagentQueries = <<>>

\* a Session with two subagent files: the Query of the second file has no
\* prompt and a cumulative cost of its own, after a first file with a prompt
C20_Witness ==
    /\ pipePc = "files"
    /\ sessions # <<>>
    /\ LET s == sessions[Len(sessions)]
       IN  /\ Len(s.subagentQueries) = 2
           /\ s.subagentQueries[1].userPrompt = Some(S_fixBug)
           /\ s.subagentQueries[2].userPrompt = None
           /\ s.subagentQueries[2].cumulativeCost = s.subagentQueries[2].costUSD
           /\ s.costCurve # <<>>
           /\ s.costCurve[Len(s.costCurve)].cumulativeCost = CostOf(s.queries)
           /\ s.costUSD = CostOf(s.queries) + s.subagentCost

---------------------------------------------------------------------------
\* Properties of the cost curve (SpecPipeline)

\* the indices, in Query order, of the Queries that have a timestamp
TimestampedIndices(qs) ==
    SelectSeq([k \in 1..Len(qs) |-> k], LAMBDA k : Truthy(qs[k].assistantTimestamp))

\* C21: a Session's costCurve has one point per Query that has a timestamp,
\* in Query order; each point carries that Query's cumulativeCost and, as
\* messageIndex, that Query's (0-based) index in the session's Query list,
\* also when an earlier Query of the session has no timestamp.
C21_CurvePointPerTimestampedQuery ==
    \A s \in AllSessions :
        LET at == TimestampedIndices(s.queries)
        IN  /\ Len(s.costCurve) = Len(at)
            /\ \A i \in 1..Len(at) :
                   /\ s.costCurve[i].cumulativeCost = s.queries[at[i]].cumulativeCost
                   /\ s.costCurve[i].timestamp = s.queries[at[i]].assistantTimestamp[1]
                   /\ s.costCurve[i].messageIndex = at[i] - 1

---------------------------------------------------------------------------
(* Properties of the prompt aggregates (SpecPipeline)                      *)

\* the Queries that open a group: they carry a prompt text, and the last
\* earlier Query that carries one, if any, carries another text
GroupStarts(qs) ==
    {k \in 1..Len(qs) :
        /\ Truthy(qs[k].userPrompt)
        /\ LET before == {j \in 1..(k - 1) : Truthy(qs[j].userPrompt)}
           IN  \/ before = {}
               \/ qs[CHOOSE j \in before : \A i \in before : i <= j].userPrompt
                      # qs[k].userPrompt}

\* the Queries of the group opened at k: up to the next opening
GroupSpan(qs, k) ==
    LET later == {m \in GroupStarts(qs) : m > k}
    IN  {j \in k..Len(qs) : \A m \in later : j < m}

RECURSIVE SumOver(_, _, _)
SumOver(qs, span, field) ==
    IF span = {} THEN 0
    ELSE LET j == CHOOSE i \in span : TRUE
         IN  qs[j][field] + SumOver(qs, span \ {j}, field)

\* the aggregate of the group opened at k
GroupOf(qs, k) ==
    LET span == GroupSpan(qs, k)
    IN  [start |-> k,
         prompt |-> Take(qs[k].userPrompt[1], 300),
         inputTokens |-> SumOver(qs, span, "inputTokens"),
         outputTokens |-> SumOver(qs, span, "outputTokens"),
         totalTokens |-> SumOver(qs, span, "inputTokens")
                         + SumOver(qs, span, "outputTokens"),
         costUSD |-> SumOver(qs, span, "costUSD"),
         continuations |-> Cardinality({j \in span : ~Truthy(qs[j].userPrompt)})]

\* the groups in the order of their openings
AllGroups(qs) ==
    LET starts == GroupStarts(qs)
        opening == SelectSeq([k \in 1..Len(qs) |-> k], LAMBDA k : k \in starts)
    IN  [i \in 1..Len(opening) |-> GroupOf(qs, opening[i])]

\* the groups that are emitted: those that count any token
EmittedGroups(qs) == SelectSeq(AllGroups(qs), LAMBDA g : g.totalTokens > 0)

\* the Query lists of the session files of the pool, each with its groups
PoolQueryLists ==
    {ParsedFiles[ctx][file].run.queries : ctx \in BillingContexts, file \in SessionFilePool}

ExpectedGroups == [qs \in PoolQueryLists |-> EmittedGroups(qs)]

SumsOf(p) ==
    [prompt |-> p.prompt, inputTokens |-> p.inputTokens,
     outputTokens |-> p.outputTokens, totalTokens |-> p.totalTokens,
     costUSD |-> p.costUSD]

WithContinuations(p) ==
    [prompt |-> p.prompt, inputTokens |-> p.inputTokens,
     outputTokens |-> p.outputTokens, totalTokens |-> p.totalTokens,
     costUSD |-> p.costUSD, continuations |-> p.continuations]

PromptsOfSession(prompts, id) ==
    SelectSeq(prompts, LAMBDA p : p.sessionId = id)

\* the prompts of every project of the result, before the cut to ten
ProjectPromptsOf(d) ==
    LET pm == buildProjectMap(d.sessions, <<>>)
    IN  [i \in 1..Len(pm) |-> [project |-> pm[i].project, allPrompts |-> pm[i].allPrompts]]

\* C22: within one session a Query whose prompt text is non-null and differs
\* from the current group's closes that group and opens a new one; a Query
\* without prompt text joins the current group and advances its continuation
\* counter; a Query with the same text joins without opening a group; the
\* tokens and the cost of a group are the sums over its Queries; a group is
\* emitted exactly when its token total is greater than zero.
C22_PromptGroupsFollowTheRules ==
    LET pp == IF dashboard = None THEN <<>> ELSE ProjectPromptsOf(dashboard[1])
    IN  \A s \in AllSessions :
            LET expected == ExpectedGroups[s.queries]
                mine == PromptsOfSession(allPrompts, s.sessionId)
            IN  /\ Len(mine) = Len(expected)
                /\ \A i \in 1..Len(expected) : SumsOf(mine[i]) = SumsOf(expected[i])
                /\ dashboard # None =>
                       \E p \in 1..Len(pp) :
                           LET theirs == PromptsOfSession(pp[p].allPrompts, s.sessionId)
                           IN  /\ s.project = pp[p].project
                               /\ Len(theirs) = Len(expected)
                               /\ \A i \in 1..Len(expected) :
                                      WithContinuations(theirs[i])
                                          = WithContinuations(expected[i])

\* a returned session with a group that is not emitted, a group that a
\* continuation and a Query of the same text joined, and a later group
C22_Witness ==
    /\ dashboard # None
    /\ \E s \in AllSessions :
           /\ \E k \in GroupStarts(s.queries) : GroupOf(s.queries, k).totalTokens = 0
           /\ \E k \in GroupStarts(s.queries) :
                  /\ GroupOf(s.queries, k).continuations = 1
                  /\ Cardinality({j \in GroupSpan(s.queries, k) :
                                     s.queries[j].userPrompt = s.queries[k].userPrompt}) = 2
           /\ Len(EmittedGroups(s.queries)) = 2

---------------------------------------------------------------------------
(* Properties of the order of the session files (SpecPipeline)             *)

\* the orders in which n files can be processed
Orders(n) ==
    {f \in [1..n -> 1..n] : \A i, j \in 1..n : f[i] = f[j] => i = j}

\* modelMap as the file loop leaves it
RECURSIVE ModelsFrom(_, _)
ModelsFrom(ss, models) ==
    IF ss = <<>> THEN models
    ELSE ModelsFrom(Tail(ss), addToModelMap(models, Head(ss).queries))

\* the totals of one project, with those of its models
TotalsOfProject(p, models) ==
    [project |-> p.project, inputTokens |-> p.inputTokens,
     outputTokens |-> p.outputTokens, totalTokens |-> p.totalTokens,
     costUSD |-> p.costUSD, sessionCount |-> p.sessionCount,
     queryCount |-> p.queryCount,
     models |-> {models[i] : i \in 1..Len(models)}]

\* the totals of a result: grand, per project, per model, per day
Aggregates(totals, perProject, models, daily) ==
    [totals |-> totals,
     perProject |-> perProject,
     perModel |-> {models[i] : i \in 1..Len(models)},
     perDay |-> {daily[i] : i \in 1..Len(daily)}]

\* the totals of the batch that processes the files of the sessions ss in
\* the order of ss
AggregatesInOrder(ss) ==
    LET sorted == SortDesc(ss, "totalTokens")
        dailyUsage == SortByDate(DailyOf(ss))
        pm == buildProjectMap(sorted, <<>>)
    IN  Aggregates(grandTotalsOf(sorted, dailyUsage),
                   {TotalsOfProject(pm[i], pm[i].modelMap) : i \in 1..Len(pm)},
                   ModelsFrom(ss, <<>>), dailyUsage)

\* C23: the aggregation does not depend on the order of the files: the grand
\* totals and the per-project, per-model and per-day totals (tokens, cost,
\* session and query counts) of the result are those of every order in which
\* the same session files can be processed.
C23_TotalsIndependentOfFileOrder ==
    dashboard # None =>
        LET d == dashboard[1]
            mine == Aggregates(d.totals,
                               {TotalsOfProject(d.projectBreakdown[i],
                                                d.projectBreakdown[i].modelBreakdown) :
                                    i \in 1..Len(d.projectBreakdown)},
                               d.modelBreakdown, d.dailyUsage)
        IN  \A f \in Orders(Len(sessions)) :
                AggregatesInOrder([i \in 1..Len(sessions) |-> sessions[f[i]]]) = mine

\* a result over two sessions of one project, of different days and costs,
\* that share a model, whose days are met in the other order when the files
\* are swapped
C23_Witness ==
    /\ dashboard # None
    /\ Len(sessions) = 2
    /\ sessions[1].project = sessions[2].project
    /\ sessions[1].date # sessions[2].date
    /\ sessions[1].costUSD # sessions[2].costUSD
    /\ \E i \in 1..Len(sessions[1].queries), j \in 1..Len(sessions[2].queries) :
           /\ sessions[1].queries[i].model = sessions[2].queries[j].model
           /\ sessions[1].queries[i].model # S_unknown
    /\ DailyOf(<<sessions[2], sessions[1]>>) # dailyMap
    /\ Len(dashboard[1].modelBreakdown) >= 2

---------------------------------------------------------------------------
(* Properties of a Query's token and cost fields (SpecReconstruct)         *)

\* the rates of the rate table for the model ids of the assistant events
RatesOfPool ==
    [m \in {modelOf(e) : e \in AssistantPool} |-> PRICING[resolveModelFamily(m)]]

\* the events of the file that a Query is pushed for
QueryEvents(es) ==
    SelectSeq(es, LAMBDA e : e.json # "null" /\ IsAssistantEvent(e) /\ NotSynthetic(e))

\* C24: every Query has inputTokens = raw input + cache-creation + cache-read
\* tokens and totalTokens = inputTokens + outputTokens, and its costUSD charges
\* each token class once at its own rate: the input rate on the raw input
\* tokens only, the cache-write and cache-read rates on the cache tokens, the
\* output rate on the output tokens.
C24_TokensSummedCostPerClass ==
    ~extractThrew =>
        LET from == QueryEvents(entries)
        IN  /\ Len(queries) = Len(from)
            /\ \A k \in 1..Len(queries) :
                   LET u == from[k].message[1].usage[1]
                       raw == OrZero(u.input_tokens)
                       creation == OrZero(u.cache_creation_input_tokens)
                       read == OrZero(u.cache_read_input_tokens)
                       out == OrZero(u.output_tokens)
                       rates == RatesOfPool[queries[k].model]
                   IN  /\ queries[k].inputTokens = raw + creation + read
                       /\ queries[k].outputTokens = out
                       /\ queries[k].totalTokens = queries[k].inputTokens + out
                       /\ queries[k].costUSD = raw * rates.input + out * rates.output
                                               + creation * rates.cacheWrite
                                               + read * rates.cacheRead

\* a Query of usage X: 1000 raw, 2000 cache-creation and 100000 cache-read
\* input tokens, 500 output tokens, 0.048 USD at the sonnet rates
C24_Witness ==
    /\ ~extractThrew
    /\ \E k \in 1..Len(queries) :
           /\ queries[k].inputTokens = 103000
           /\ queries[k].cacheCreationTokens = 2000
           /\ queries[k].cacheReadTokens = 100000
           /\ queries[k].totalTokens = 103500
           /\ queries[k].costUSD = 4800000

---------------------------------------------------------------------------
(* Properties of the project, cache and subagent detectors (SpecInsights)  *)

Contributed(id) == \E i \in 1..Len(InsightIds) : InsightIds[i] = id

\* the summed cost of the sessions of one project
ProjectCost(ss, project) ==
    SumOf(SelectSeq(ss, LAMBDA s : s.project = project), "costUSD")

\* C25: project-dominance is contributed exactly when one project's summed
\* cost is at least 60% of the total spend, whatever the population: a single
\* project and a run of few sessions included.
C25_DominanceIffSixtyPercent ==
    insights # None =>
        (Contributed("project-dominance")
            <=> \E i \in 1..Len(Population) :
                    /\ SumOf(Population, "costUSD") > 0
                    /\ ~FracLess(ProjectCost(Population, Population[i].project),
                                 SumOf(Population, "costUSD"), 60, 100))

\* C26: a Session qualifies for the low-cache-hit detector exactly when its
\* cache-hit ratio is below 50%, its cost is above $0.50 and it has at least
\* 20 turns; a session of exactly 20 turns that meets the other two
\* conditions qualifies.
C26_LowCacheFromTwentyTurns ==
    insights # None =>
        \A i \in 1..Len(Population) :
            LET s == Population[i]
            IN  lowCache(s)
                    <=> /\ FracLess(s.cacheEfficiency.num, s.cacheEfficiency.den, 1, 2)
                        /\ s.costUSD > USD_0_50
                        /\ Len(s.queries) >= 20

\* C27: subagent-overhead is contributed exactly when some Session with a
\* non-zero subagent cost has a subagent cost of more than 20% of its own
\* costUSD; the test is made on each session by itself and any excess over
\* 20% counts.
C27_SubagentOverheadPerSession ==
    insights # None =>
        (Contributed("subagent-overhead")
            <=> \E i \in 1..Len(Population) :
                    /\ Population[i].subagentCost > 0
                    /\ FracLess(20, 100, Population[i].subagentCost, Population[i].costUSD))

---------------------------------------------------------------------------
(* Properties of the frame of generateInsights (SpecInsights)              *)

\* the arguments of the call, as the caller built them
SortedPopulation == SortDesc(Population, "totalTokens")
SortedPrompts == SortDesc(PromptsOf(Population), "totalTokens")
GrandTotals == grandTotalsOf(SortedPopulation, SortByDate(DailyOf(Population)))

\* what the k-th detector pushes
DetectorOutput(k) ==
    CASE k = 1 -> vaguePrompts(SortedPrompts)
      [] k = 2 -> contextGrowth(SortedPopulation)
      [] k = 3 -> marathonSessions(SortedPopulation)
      [] k = 4 -> inputHeavy(GrandTotals)
      [] k = 5 -> dayPattern(SortedPopulation)
      [] k = 6 -> modelMismatch(SortedPopulation)
      [] k = 7 -> toolHeavy(SortedPopulation)
      [] k = 8 -> projectDominance(SortedPopulation, GrandTotals)
      [] k = 9 -> conversationEfficiency(SortedPopulation)
      [] k = 10 -> heavyContext(SortedPopulation)
      [] k = 11 -> cacheEfficiencyInsight(SortedPopulation)
      [] k = 12 -> subagentOverhead(SortedPopulation)
      [] k = 13 -> subscriptionValue(GrandTotals, billingContext)

---------------------------------------------------------------------------
(* Properties of failed runs (SpecServer)                                  *)

\* the results a run can resolve with
CompleteResults == {out.data : out \in {o \in RunOutcomes : o.ok}}

\* C29: when the pipeline run of a /api/data, /api/refresh or
\* /api/session/:id handler fails, the request is answered 500 and the cache
\* keeps the value it had before: absent stays absent, a previous result
\* stays served; the cache never holds anything but a complete result.
C29_FailedRunKeepsCache ==
    [][/\ \A i \in 1..Len(requests) :
              (AnsweredNow(i) /\ cachedData' # cachedData)
                  => requests'[i].status \in {200, 404}
       /\ \A i \in 1..Len(requests) :
              (AnsweredNow(i) /\ requests'[i].status = 500)
                  => /\ cachedData' = cachedData
                     /\ cachedRun' = cachedRun
                     /\ requests'[i].body = None
       /\ \A i \in 1..Len(requests) :
              (AnsweredNow(i) /\ requests'[i].status # 500)
                  => /\ cachedData' \in CompleteResults
                     /\ cachedRun' = requests[i].runStartedAt
       /\ cachedData' = None \/ cachedData' \in CompleteResults]_vars

\* a refresh failed while the cache held a result, and a later read was
\* served that result
C29_Witness ==
    \E f, r \in 1..Len(requests) :
        /\ requests[f].route = "refresh"
        /\ requests[f].pc = "responded"
        /\ requests[f].status = 500
        /\ requests[r].route \in {"data", "session"}
        /\ requests[r].pc = "responded"
        /\ requests[r].status = 200
        /\ requests[r].startedAt > requests[f].completedAt
        /\ requests[r].servedRun > 0
        /\ requests[r].servedRun < requests[f].startedAt
        /\ cachedData # None

---------------------------------------------------------------------------
(* Conservation over the prompt aggregates (SpecPipeline)                  *)

\* the Queries of a session from the first one that carries a prompt text
FromFirstPrompt(qs) ==
    LET prompted == {k \in 1..Len(qs) : Truthy(qs[k].userPrompt)}
    IN  IF prompted = {} THEN <<>>
        ELSE SubSeq(qs, CHOOSE k \in prompted : \A j \in prompted : k <= j, Len(qs))

CountedQueries == [qs \in PoolQueryLists |-> FromFirstPrompt(qs)]

\* C30: for every Session the tokens and the cost summed over the Prompt
\* aggregates emitted for it are those summed over its own Queries from the
\* first Query that has a prompt text onward, so the Queries before the first
\* prompt text are in no aggregate; and the global pass and the per-project
\* pass produce the same groups with the same token and cost sums.
C30_PromptAggregatesConserve ==
    LET pp == IF dashboard = None THEN <<>> ELSE ProjectPromptsOf(dashboard[1])
    IN  \A s \in AllSessions :
            LET mine == PromptsOfSession(allPrompts, s.sessionId)
                counted == CountedQueries[s.queries]
            IN  /\ SumOf(mine, "inputTokens") = SumOf(counted, "inputTokens")
                /\ SumOf(mine, "outputTokens") = SumOf(counted, "outputTokens")
                /\ SumOf(mine, "totalTokens") = SumOf(counted, "totalTokens")
                /\ SumOf(mine, "costUSD") = SumOf(counted, "costUSD")
                /\ dashboard # None =>
                       \E p \in 1..Len(pp) :
                           LET theirs == PromptsOfSession(pp[p].allPrompts, s.sessionId)
                           IN  /\ s.project = pp[p].project
                               /\ [i \in 1..Len(theirs) |-> SumsOf(theirs[i])]
                                      = [i \in 1..Len(mine) |-> SumsOf(mine[i])]

\* a result with a session whose first Query counts tokens before any prompt
\* text and has an aggregate, and a session with a group that is dropped and
\* two that are emitted
C30_Witness ==
    /\ dashboard # None
    /\ \E s \in AllSessions :
           /\ ~Truthy(s.queries[1].userPrompt)
           /\ s.queries[1].totalTokens > 0
           /\ Len(PromptsOfSession(allPrompts, s.sessionId)) = 1
           /\ SumOf(PromptsOfSession(allPrompts, s.sessionId), "totalTokens") < s.totalTokens
    /\ \E s \in AllSessions :
           /\ Len(PromptsOfSession(allPrompts, s.sessionId)) = 2
           /\ Cardinality(GroupStarts(s.queries)) = 3

====
